---- MODULE Spec2Model ----
(***************************************************************************)
(* Event-processing pipeline of nexus-functions: the CloudEvent envelope   *)
(* codec, the publisher, the JetStream-backed event store, the dispatch    *)
(* engine, the sandbox executor's module cache and the HTTP handlers that  *)
(* orchestrate ingest, replay and on-demand execution.                     *)
(*                                                                         *)
(* Strings the code inspects character by character (paths, event types,   *)
(* subjects) are sequences of one-character strings.  Option<T> is a       *)
(* sequence of length 0 (None) or 1 (Some).  A serialized envelope is the  *)
(* JSON object serde_json writes: a function from the keys present to      *)
(* their values.                                                           *)
(***************************************************************************)
EXTENDS Integers, Sequences, FiniteSets, TLC

VARIABLES
    connected,  \* NatsClient.client.is_some(), fixed once the server runs
    catalog,    \* NexusConfig.functions, loaded at startup
    log,        \* records of the JetStream stream "events", in stream order
    cache,      \* WasmExecutor.module_cache: the keys of the compiled modules
    tasks,      \* executions of execute_matching_functions, in spawn order
    resp,       \* the HTTP response written last
    created,    \* history: the envelopes CloudEvent::new made and published
    acks,       \* history: publish acknowledgments received from the server
    metrics,    \* MetricsCollector.data: the counters of AppState.metrics
    call,       \* the direct call of a library function made last, with its result
    callers,    \* concurrent callers of WasmExecutor::execute, each with its position
    mutex,      \* holder of the module_cache mutex, 0 when it is free
    compilations, \* history: the cache keys Module::new was called for, and clears
    streams,    \* the JetStream server's streams: name -> configuration
    rwlocks     \* holders of the tokio RwLocks: of the stream adapter, of the counters

\* the state only direct calls of the library write; the server leaves it alone
direct == <<call, callers, mutex, compilations, streams, rwlocks>>

vars == <<connected, catalog, log, cache, tasks, resp, created, acks, metrics, direct>>

---------------------------------------------------------------------------
(* Bounds of the model *)

MaxLog == 3     \* publishes explored
MaxEvents == 2  \* envelopes ingested, the other publishes are replays
MaxTasks == 2   \* fan-out / execute runs explored
CounterBits == 16 \* bits kept of a u64 counter

(* Program constants *)

\* max_messages of one fetch in get_event_by_id and list_events; the source
\* value is 1000, scaled down so that the log can outgrow the window.
ScanWindow == 2
\* max_messages of the stream created by create_stream
MaxMessages == 100000

---------------------------------------------------------------------------
(* Option and character strings *)

None == <<>>
Some(x) == <<x>>

replace(s, from, to) == [i \in 1..Len(s) |-> IF s[i] = from THEN to ELSE s[i]]

contains(haystack, needle) ==
    \E i \in 0..(Len(haystack) - Len(needle)) :
        SubSeq(haystack, i + 1, i + Len(needle)) = needle

Range(seq) == { seq[i] : i \in DOMAIN seq }

Take(s, n) == SubSeq(s, 1, IF n < Len(s) THEN n ELSE Len(s))

ComNexus == <<"c", "o", "m", ".", "n", "e", "x", "u", "s", ".">>
EventsDot == <<"e", "v", "e", "n", "t", "s", ".">>
GenericEvent == <<"g", "e", "n", "e", "r", "i", "c", ".", "e", "v", "e", "n", "t">>
StreamName == <<"e", "v", "e", "n", "t", "s">>

---------------------------------------------------------------------------
(* Inputs *)

\* the *path of POST /webhook/*path
Paths == { <<"a", "/", "b">>, <<"d">> }
\* JSON objects of request bodies
Objects == {"o1"}
\* the event_type field of a POST /events body, when present
BodyTypes == {None, Some(<<"a">>)}

---------------------------------------------------------------------------
(* Envelope codec: cloudevents.rs *)

\* Uuid::new_v4(): an id no envelope made before carries; made is the number
\* of envelopes made so far
Uuid_new_v4(made) == <<"uuid", made + 1>>
\* Utc::now(): the clock has moved on with every record the stream took
Utc_now(stored) == <<"utc", stored>>

JNull == "null"

CloudEvent_new(event_type, source, uuid, now) ==
    [ specversion |-> "1.0",
      event_type |-> event_type,
      source |-> source,
      id |-> uuid,
      time |-> now,
      datacontenttype |-> Some("application/json"),
      data |-> None,
      extensions |-> <<>> ]

\* Mutant: with_data builds the envelope anew, under another id.
with_data_rebuilds(event, data) ==
    [event EXCEPT !.data = Some(data), !.id = <<"uuid", 0>>]

with_data(event, data) == [event EXCEPT !.data = Some(data)]

\* self.extensions.insert(key, value)
with_extension(event, key, value) ==
    [event EXCEPT !.extensions =
        [k \in DOMAIN event.extensions \cup {key} |->
            IF k = key THEN value ELSE event.extensions[k]]]

RequiredKeys == {"specversion", "type", "source", "id", "time"}
KnownKeys == RequiredKeys \cup {"datacontenttype", "data"}

\* serde_json::to_vec: Option fields that are None are skipped, the extension
\* map is flattened into the top level.
to_json_bytes(event) ==
    LET present == RequiredKeys
                     \cup (IF event.datacontenttype # None THEN {"datacontenttype"} ELSE {})
                     \cup (IF event.data # None THEN {"data"} ELSE {})
        std == [k \in present |->
                  CASE k = "specversion" -> event.specversion
                    [] k = "type" -> event.event_type
                    [] k = "source" -> event.source
                    [] k = "id" -> event.id
                    [] k = "time" -> event.time
                    [] k = "datacontenttype" -> event.datacontenttype[1]
                    [] k = "data" -> event.data[1]]
    IN  [k \in present \cup DOMAIN event.extensions |->
            IF k \in present THEN std[k] ELSE event.extensions[k]]

\* Mutant: data is not read back.
from_slice_skips_data(payload) ==
    IF ~(RequiredKeys \subseteq DOMAIN payload)
    THEN None
    ELSE Some([ specversion |-> payload["specversion"],
                event_type |-> payload["type"],
                source |-> payload["source"],
                id |-> payload["id"],
                time |-> payload["time"],
                datacontenttype |->
                    IF "datacontenttype" \in DOMAIN payload
                    THEN Some(payload["datacontenttype"]) ELSE None,
                data |-> None,
                extensions |->
                    [k \in (DOMAIN payload) \ KnownKeys |-> payload[k]] ])

\* serde_json::from_slice::<CloudEvent>: Err (None here) when a required
\* attribute is missing; an Option field that is absent or null is None; every
\* unknown key lands in extensions.
from_slice(payload) ==
    IF ~(RequiredKeys \subseteq DOMAIN payload)
    THEN None
    ELSE Some([ specversion |-> payload["specversion"],
                event_type |-> payload["type"],
                source |-> payload["source"],
                id |-> payload["id"],
                time |-> payload["time"],
                datacontenttype |->
                    IF "datacontenttype" \in DOMAIN payload
                       /\ payload["datacontenttype"] # JNull
                    THEN Some(payload["datacontenttype"]) ELSE None,
                data |->
                    IF "data" \in DOMAIN payload /\ payload["data"] # JNull
                    THEN Some(payload["data"]) ELSE None,
                extensions |->
                    [k \in (DOMAIN payload) \ KnownKeys |-> payload[k]] ])

---------------------------------------------------------------------------
(* Stream adapter: nats_client.rs, and the stream it creates *)

(* Stream adapter: nats_client.rs *)

\* attempts of connect_with_retry at startup
ConnectRetries == 5

\* NatsClient::new: not connected
NatsClient_new == [client |-> None, jetstream |-> None]

\* connect: reachable tells whether async_nats::connect succeeds
NatsClient_connect(self, reachable) ==
    IF reachable
    THEN [ok |-> TRUE, self |-> [client |-> Some("client"), jetstream |-> Some("jetstream")]]
    ELSE [ok |-> FALSE, self |-> self]

\* Mutant: the loop runs over 0..=max_retries, one attempt too many.
RECURSIVE connect_with_retry_inclusive(_, _, _, _)
connect_with_retry_inclusive(self, attempt, max_retries, up_from) ==
    IF attempt > max_retries + 1
    THEN [ok |-> FALSE, self |-> self, attempts |-> attempt - 1]
    ELSE LET tried == NatsClient_connect(self, attempt >= up_from)
         IN  IF tried.ok THEN [ok |-> TRUE, self |-> tried.self, attempts |-> attempt]
             ELSE IF attempt < max_retries + 1
                  THEN connect_with_retry_inclusive(tried.self, attempt + 1,
                                                    max_retries, up_from)
                  ELSE [ok |-> FALSE, self |-> tried.self, attempts |-> attempt]

\* connect_with_retry: the loop over attempt in 1..=max_retries, entered at
\* attempt; the server answers from attempt number up_from on.  attempts is
\* the number of calls of connect made.
RECURSIVE connect_with_retry(_, _, _, _)
connect_with_retry(self, attempt, max_retries, up_from) ==
    IF attempt > max_retries
    THEN [ok |-> FALSE, self |-> self, attempts |-> attempt - 1]
    ELSE LET tried == NatsClient_connect(self, attempt >= up_from)
         IN  IF tried.ok THEN [ok |-> TRUE, self |-> tried.self, attempts |-> attempt]
             ELSE IF attempt < max_retries
                  THEN connect_with_retry(tried.self, attempt + 1, max_retries, up_from)
                  ELSE [ok |-> FALSE, self |-> tried.self, attempts |-> attempt]

is_connected(self) == self.client # None

\* A subject filter of the stream or of a consumer: "*" as the last token
\* matches exactly one non-empty token.
SubjectMatches(filter, subject) ==
    IF Len(filter) > 0 /\ filter[Len(filter)] = "*"
    THEN /\ Len(subject) >= Len(filter)
         /\ SubSeq(subject, 1, Len(filter) - 1) = SubSeq(filter, 1, Len(filter) - 1)
         /\ \A i \in Len(filter)..Len(subject) : subject[i] # "."
    ELSE subject = filter

\* subjects: vec![format!("{}.*", stream_name)]
StreamSubjects == StreamName \o <<".", "*">>

\* Mutant: the acknowledgment is not awaited, Ok is returned for a record the
\* server never stored.
NatsClient_publish_unacked(lg, subject, payload, ack) ==
    IF SubjectMatches(StreamSubjects, subject)
    THEN [ok |-> TRUE,
          log |-> IF ack
                  THEN Append(lg, [subject |-> subject, payload |-> payload,
                                   sequence |-> Len(lg) + 1])
                  ELSE lg]
    ELSE [ok |-> FALSE, log |-> lg]

\* Mutant: a retry stores the record twice.
NatsClient_publish_twice(lg, subject, payload, ack) ==
    IF ack /\ SubjectMatches(StreamSubjects, subject)
    THEN LET rec == [subject |-> subject, payload |-> payload, sequence |-> Len(lg) + 1]
         IN  [ok |-> TRUE, log |-> lg \o <<rec, [rec EXCEPT !.sequence = Len(lg) + 2]>>]
    ELSE [ok |-> FALSE, log |-> lg]

\* NatsClient::publish: Ok only after the server's acknowledgment.  ack is the
\* backend's answer; a stream at max_messages discards its oldest record.
NatsClient_publish(lg, subject, payload, ack) ==
    IF ack /\ SubjectMatches(StreamSubjects, subject)
    THEN LET seq == IF lg = <<>> THEN 1 ELSE lg[Len(lg)].sequence + 1
             kept == IF Len(lg) >= MaxMessages THEN Tail(lg) ELSE lg
         IN  [ok |-> TRUE,
              log |-> Append(kept, [subject |-> subject, payload |-> payload,
                                    sequence |-> seq])]
    ELSE [ok |-> FALSE, log |-> lg]

\* max_age of the stream: 7 * 24 * 60 * 60 seconds
MaxAgeSecs == 604800

NoStreams == [n \in {} |-> {}]

\* jetstream::stream::Config of create_stream
StreamConfig(stream_name) ==
    [ subjects |-> <<stream_name \o <<".", "*">>>>,
      retention |-> "Limits",
      max_messages |-> MaxMessages,
      max_age |-> MaxAgeSecs,
      storage |-> "File" ]

\* Mutant: the stream is created without looking for it first, a stream of
\* that name is replaced and its records are dropped.
create_stream_recreates(conn, strs, lg, stream_name, up) ==
    IF ~conn \/ ~up
    THEN [ok |-> FALSE, streams |-> strs, log |-> lg]
    ELSE [ok |-> TRUE,
          streams |-> [n \in DOMAIN strs \cup {stream_name} |->
                         IF n = stream_name THEN StreamConfig(stream_name) ELSE strs[n]],
          log |-> IF stream_name = StreamName THEN <<>> ELSE lg]

\* NatsClient::create_stream on the server state (strs, the streams; lg, the
\* records of the stream "events").  up tells whether the server answers:
\* get_stream is Ok exactly for a stream that exists on a server that answers.
create_stream(conn, strs, lg, stream_name, up) ==
    IF ~conn
    THEN [ok |-> FALSE, streams |-> strs, log |-> lg]
    ELSE IF up /\ stream_name \in DOMAIN strs
    THEN [ok |-> TRUE, streams |-> strs, log |-> lg]
    ELSE IF up
    THEN [ok |-> TRUE,
          streams |-> [n \in DOMAIN strs \cup {stream_name} |->
                         IF n = stream_name THEN StreamConfig(stream_name) ELSE strs[n]],
          log |-> lg]
    ELSE [ok |-> FALSE, streams |-> strs, log |-> lg]

---------------------------------------------------------------------------
(* Publisher: publisher.rs *)

EventPublisher_publish_to(conn, lg, subject, event, ack) ==
    IF ~conn
    THEN [ok |-> FALSE, log |-> lg]
    ELSE NatsClient_publish(lg, subject, to_json_bytes(event), ack)

\* Mutant: the dots of the type are escaped with '-'.
EventPublisher_publish_dashes(conn, lg, event, ack) ==
    EventPublisher_publish_to(conn, lg,
        EventsDot \o replace(event.event_type, ".", "-"), event, ack)

EventPublisher_publish(conn, lg, event, ack) ==
    EventPublisher_publish_to(conn, lg,
        EventsDot \o replace(event.event_type, ".", "_"), event, ack)

---------------------------------------------------------------------------
(* Event log: event_store.rs *)

\* consumer.fetch().max_messages(max): the first max records of the stream
\* whose subject matches the consumer's filter, in stream order
Fetch(lg, filter, max) ==
    LET Wanted(r) == SubjectMatches(filter, r.subject)
    IN  Take(SelectSeq(lg, Wanted), max)

\* Mutant: the id of the record is not compared.
FirstWithId_any(msgs, event_id) ==
    IF msgs = <<>> THEN None ELSE from_slice(Head(msgs).payload)

\* Mutant: the scan ends at the first payload that is no envelope.
RECURSIVE FirstWithId_stops(_, _)
FirstWithId_stops(msgs, event_id) ==
    IF msgs = <<>> THEN None
    ELSE LET event == from_slice(Head(msgs).payload)
         IN  IF event = None THEN None
             ELSE IF event[1].id = event_id
                  THEN event
                  ELSE FirstWithId_stops(Tail(msgs), event_id)

RECURSIVE FirstWithId(_, _)
FirstWithId(msgs, event_id) ==
    IF msgs = <<>> THEN None
    ELSE LET event == from_slice(Head(msgs).payload)
         IN  IF event # None /\ event[1].id = event_id
             THEN event
             ELSE FirstWithId(Tail(msgs), event_id)

\* Mutant: the scan runs without the is_connected check.
get_event_by_id_unchecked(conn, lg, event_id, up) ==
    IF ~up
    THEN [ok |-> FALSE, value |-> None]
    ELSE [ok |-> TRUE,
          value |-> FirstWithId(Fetch(lg, StreamName \o <<".", "*">>, ScanWindow),
                                event_id)]

\* Result<Option<CloudEvent>>: err when not connected or the backend fails
get_event_by_id(conn, lg, event_id, up) ==
    IF ~conn \/ ~up
    THEN [ok |-> FALSE, value |-> None]
    ELSE [ok |-> TRUE,
          value |-> FirstWithId(Fetch(lg, StreamName \o <<".", "*">>, ScanWindow),
                                event_id)]

RECURSIVE Collect(_, _, _)
Collect(msgs, events, limit) ==
    IF msgs = <<>> THEN events
    ELSE LET event == from_slice(Head(msgs).payload)
         IN  IF event = None
             THEN Collect(Tail(msgs), events, limit)
             ELSE IF Len(events) + 1 >= limit
                  THEN Append(events, event[1])
                  ELSE Collect(Tail(msgs), Append(events, event[1]), limit)

\* Mutant: the fetch asks for limit records, the window of 1000 is not applied.
list_events_fetches_limit(conn, lg, event_type, limit, up) ==
    IF ~conn \/ ~up
    THEN [ok |-> FALSE, value |-> <<>>]
    ELSE LET filter_subject ==
                 IF event_type # None
                 THEN StreamName \o <<".">> \o replace(event_type[1], ".", "_")
                 ELSE StreamName \o <<".", "*">>
         IN  [ok |-> TRUE,
              value |-> Collect(Fetch(lg, filter_subject, limit), <<>>, limit)]

list_events(conn, lg, event_type, limit, up) ==
    IF ~conn \/ ~up
    THEN [ok |-> FALSE, value |-> <<>>]
    ELSE LET filter_subject ==
                 IF event_type # None
                 THEN StreamName \o <<".">> \o replace(event_type[1], ".", "_")
                 ELSE StreamName \o <<".", "*">>
         IN  [ok |-> TRUE,
              value |-> Collect(Fetch(lg, filter_subject,
                                      IF limit < ScanWindow THEN limit ELSE ScanWindow),
                                <<>>, limit)]

get_event_count(conn, lg, up) ==
    IF ~conn \/ ~up
    THEN [ok |-> FALSE, value |-> 0]
    ELSE [ok |-> TRUE, value |-> Len(lg)]

---------------------------------------------------------------------------
(* Function catalog: config/mod.rs.  A FunctionConfig keeps its name, its  *)
(* triggers (on.http present or not, on.nats with its subject) and its     *)
(* code path.                                                              *)

FnA == [name |-> "fA", http |-> FALSE, nats |-> Some(<<"a">>), code |-> "a.wasm"]
FnB == [name |-> "fB", http |-> TRUE, nats |-> None, code |-> "b.wasm"]
FnC == [name |-> "fC", http |-> FALSE, nats |-> Some(<<"a", ".", "b">>), code |-> "c.wasm"]
FnD == [name |-> "fD", http |-> FALSE, nats |-> Some(<<"a">>), code |-> "d.wasm"]

\* the configurations the server is started with
Catalogs == { <<FnA, FnB, FnC>>, <<FnD, FnA>> }

\* tokio::fs::read(code): d.wasm does not exist
ReadModule(code) ==
    CASE code = "a.wasm" -> Some("mA")
      [] code = "b.wasm" -> Some("mB")
      [] code = "c.wasm" -> Some("mC")
      [] code = "i.wasm" -> Some("mI")
      [] OTHER -> None

\* Module::new: mC is not a valid module
Compiles(module_bytes) == module_bytes # "mC"
\* linker.instantiate_async: mI imports what the linker does not define
Instantiates(module_bytes) == module_bytes \in {"mA", "mB", "mE"}
\* instance.get_typed_func::<(), ()>(name) and its call: the export returns
\* ("ok"), traps ("trap"), or the module has no such export ("absent").
\* mA exports _start and run, both return; mB exports both, both trap; mE
\* exports neither.
ExportOf(module_bytes, func_name) ==
    IF func_name \notin {"_start", "run"} \/ module_bytes = "mE" THEN "absent"
    ELSE IF module_bytes = "mB" THEN "trap"
    ELSE "ok"
\* the _start export
StartOf(module_bytes) == ExportOf(module_bytes, "_start")

---------------------------------------------------------------------------
(* Sandbox executor: wasm_executor.rs *)

\* length of the serialized input, as far as the model tells inputs apart
ByteLen(input) == Cardinality(DOMAIN input) + Len(input["type"])

\* Mutant: the compiled module is returned but not inserted.
get_or_compile_module_no_insert(cch, module_bytes, cache_key) ==
    IF cache_key \in cch
    THEN [ok |-> TRUE, cache |-> cch, compiled |-> FALSE]
    ELSE IF Compiles(module_bytes)
         THEN [ok |-> TRUE, cache |-> cch, compiled |-> TRUE]
         ELSE [ok |-> FALSE, cache |-> cch, compiled |-> TRUE]

\* Result<Module> and the cache afterwards; compiled tells whether Module::new
\* was called
get_or_compile_module(cch, module_bytes, cache_key) ==
    IF cache_key \in cch
    THEN [ok |-> TRUE, cache |-> cch, compiled |-> FALSE]
    ELSE IF Compiles(module_bytes)
         THEN [ok |-> TRUE, cache |-> cch \cup {cache_key}, compiled |-> TRUE]
         ELSE [ok |-> FALSE, cache |-> cch, compiled |-> TRUE]

\* the output execute formats
SimulatedOutput(input) == [status |-> "executed", input_size |-> ByteLen(input)]

\* Mutant: a failing _start is returned as the error of execute.
WasmExecutor_execute_start_fatal(cch, module_bytes, input) ==
    LET cache_key == <<"module", module_bytes>>
        module == get_or_compile_module(cch, module_bytes, cache_key)
        start == StartOf(module_bytes)
    IN  IF ~module.ok
        THEN [ok |-> FALSE, output |-> None, cache |-> module.cache,
              compiled |-> module.compiled, instantiated |-> FALSE, start |-> "none"]
        ELSE IF ~Instantiates(module_bytes)
             THEN [ok |-> FALSE, output |-> None, cache |-> module.cache,
                   compiled |-> module.compiled, instantiated |-> FALSE, start |-> "none"]
             ELSE IF start = "trap"
                  THEN [ok |-> FALSE, output |-> None, cache |-> module.cache,
                        compiled |-> module.compiled, instantiated |-> TRUE, start |-> start]
                  ELSE [ok |-> TRUE, output |-> Some(SimulatedOutput(input)),
                        cache |-> module.cache,
                        compiled |-> module.compiled, instantiated |-> TRUE, start |-> start]

\* Result<Vec<u8>> and the cache afterwards; compiled, instantiated and start
\* tell what ran.  The key is "module_" and the MD5 digest of the bytes, taken
\* as injective.
WasmExecutor_execute(cch, module_bytes, input) ==
    LET cache_key == <<"module", module_bytes>>
        module == get_or_compile_module(cch, module_bytes, cache_key)
        start == StartOf(module_bytes)
    IN  IF ~module.ok
        THEN [ok |-> FALSE, output |-> None, cache |-> module.cache,
              compiled |-> module.compiled, instantiated |-> FALSE, start |-> "none"]
        ELSE IF ~Instantiates(module_bytes)
             THEN [ok |-> FALSE, output |-> None, cache |-> module.cache,
                   compiled |-> module.compiled, instantiated |-> FALSE, start |-> "none"]
             ELSE \* _start is called when the module exports it; its failure
                  \* is logged as a warning and the output is the same
                  [ok |-> TRUE, output |-> Some(SimulatedOutput(input)),
                   cache |-> module.cache,
                   compiled |-> module.compiled, instantiated |-> TRUE, start |-> start]

\* Mutant: a failing named export is logged as execute logs _start.
WasmExecutor_execute_func_lenient(cch, module_bytes, func_name, input) ==
    LET cache_key == <<"module", module_bytes, func_name>>
        module == get_or_compile_module(cch, module_bytes, cache_key)
        func == ExportOf(module_bytes, func_name)
        out == [status |-> "executed", function |-> func_name,
                input_size |-> ByteLen(input)]
    IN  IF ~module.ok \/ ~Instantiates(module_bytes)
        THEN [ok |-> FALSE, output |-> None, cache |-> module.cache,
              compiled |-> module.compiled, instantiated |-> FALSE, func |-> "none"]
        ELSE IF func = "absent"
             THEN [ok |-> FALSE, output |-> None, cache |-> module.cache,
                   compiled |-> module.compiled, instantiated |-> TRUE, func |-> func]
             ELSE [ok |-> TRUE, output |-> Some(out), cache |-> module.cache,
                   compiled |-> module.compiled, instantiated |-> TRUE, func |-> func]

\* execute_func: the key also holds the function name; a missing export and a
\* failing call are errors
WasmExecutor_execute_func(cch, module_bytes, func_name, input) ==
    LET cache_key == <<"module", module_bytes, func_name>>
        module == get_or_compile_module(cch, module_bytes, cache_key)
        func == ExportOf(module_bytes, func_name)
        out == [status |-> "executed", function |-> func_name,
                input_size |-> ByteLen(input)]
    IN  IF ~module.ok \/ ~Instantiates(module_bytes)
        THEN [ok |-> FALSE, output |-> None, cache |-> module.cache,
              compiled |-> module.compiled, instantiated |-> FALSE, func |-> "none"]
        ELSE IF func = "ok"
             THEN [ok |-> TRUE, output |-> Some(out), cache |-> module.cache,
                   compiled |-> module.compiled, instantiated |-> TRUE, func |-> func]
             ELSE [ok |-> FALSE, output |-> None, cache |-> module.cache,
                   compiled |-> module.compiled, instantiated |-> TRUE, func |-> func]

\* Mutant: clear_cache leaves the entries in place.
WasmExecutor_clear_cache_keeps(cch) == cch

\* clear_cache
WasmExecutor_clear_cache(cch) == {}

---------------------------------------------------------------------------
(* Dispatch and function execution: executor.rs *)

\* Mutant: a stream trigger matches only when the type contains its subject.
Matches_one_way(func, event_type) ==
    IF func.http
    THEN TRUE
    ELSE IF func.nats # None
         THEN contains(event_type, func.nats[1])
         ELSE FALSE

Matches(func, event_type) ==
    IF func.http
    THEN TRUE
    ELSE IF func.nats # None
         THEN contains(event_type, func.nats[1]) \/ contains(func.nats[1], event_type)
         ELSE FALSE

\* Mutant: the names are collected last match first.
RECURSIVE MatchingNames_reversed(_, _)
MatchingNames_reversed(functions, event_type) ==
    IF functions = <<>> THEN <<>>
    ELSE MatchingNames_reversed(Tail(functions), event_type)
         \o (IF Matches(Head(functions), event_type)
             THEN <<Head(functions).name>> ELSE <<>>)

RECURSIVE MatchingNames(_, _)
MatchingNames(functions, event_type) ==
    IF functions = <<>> THEN <<>>
    ELSE (IF Matches(Head(functions), event_type)
          THEN <<Head(functions).name>> ELSE <<>>)
         \o MatchingNames(Tail(functions), event_type)

find_matching_functions(functions, event_type) ==
    MatchingNames(functions, event_type)

\* Result<Vec<u8>> and the cache afterwards; invoked tells whether the sandbox
\* executor was called
execute_function(functions, cch, function_name, event) ==
    LET found == SelectSeq(functions, LAMBDA f : f.name = function_name)
    IN  IF found = <<>>
        THEN [ok |-> FALSE, output |-> None, cache |-> cch]
        ELSE LET module_bytes == ReadModule(Head(found).code)
             IN  IF module_bytes = None
                 THEN [ok |-> FALSE, output |-> None, cache |-> cch]
                 ELSE WasmExecutor_execute(cch, module_bytes[1], to_json_bytes(event))

\* Mutant: the error of a function is propagated with ?, the loop ends there.
RECURSIVE RunAll_stops(_, _, _, _)
RunAll_stops(functions, cch, names, event) ==
    IF names = <<>> THEN [results |-> <<>>, attempted |-> <<>>, cache |-> cch]
    ELSE LET ran == execute_function(functions, cch, Head(names), event)
             rest == IF ran.ok
                     THEN RunAll_stops(functions, ran.cache, Tail(names), event)
                     ELSE [results |-> <<>>, attempted |-> <<>>, cache |-> ran.cache]
         IN  [results |-> (IF ran.ok
                           THEN <<[name |-> Head(names), output |-> ran.output[1]]>>
                           ELSE <<>>) \o rest.results,
              attempted |-> <<Head(names)>> \o rest.attempted,
              cache |-> rest.cache]

\* the loop of execute_matching_functions over the matched names: a failure
\* is logged and the loop goes on; results holds the successes only,
\* attempted the names execute_function was called for
RECURSIVE RunAll(_, _, _, _)
RunAll(functions, cch, names, event) ==
    IF names = <<>> THEN [results |-> <<>>, attempted |-> <<>>, cache |-> cch]
    ELSE LET ran == execute_function(functions, cch, Head(names), event)
             rest == RunAll(functions, ran.cache, Tail(names), event)
         IN  [results |-> (IF ran.ok
                           THEN <<[name |-> Head(names), output |-> ran.output[1]]>>
                           ELSE <<>>) \o rest.results,
              attempted |-> <<Head(names)>> \o rest.attempted,
              cache |-> rest.cache]

execute_matching_functions(functions, cch, event) ==
    RunAll(functions, cch, find_matching_functions(functions, event.event_type), event)

---------------------------------------------------------------------------
(* Metrics: metrics.rs *)

\* MetricsCollector::new: every counter starts at zero.  No handler and no
\* executor path calls increment_events_published, increment_events_replayed,
\* increment_events_failed or record_function_execution.
MetricsCollector_new ==
    [events_published |-> 0, events_replayed |-> 0, events_failed |-> 0,
     functions_executed |-> 0, functions_succeeded |-> 0, functions_failed |-> 0,
     total_execution_time_ms |-> 0]

\* the counters are u64; the model keeps CounterBits bits of them
U64 == 2^CounterBits
\* a - b on u64 where the build has no overflow checks
wrapping_sub(a, b) == (a - b + U64) % U64
\* an f64 quotient, kept as the fraction it approximates
Ratio(num, den) == [num |-> num, den |-> den]

\* the statements record_function_execution and the increment_* functions run
\* under the write guard: the field each adds to and the amount
Statements(op, duration_ms, success) ==
    CASE op = "increment_events_published" -> <<[field |-> "events_published", by |-> 1]>>
      [] op = "increment_events_replayed" -> <<[field |-> "events_replayed", by |-> 1]>>
      [] op = "increment_events_failed" -> <<[field |-> "events_failed", by |-> 1]>>
      [] op = "record_function_execution" ->
            <<[field |-> "functions_executed", by |-> 1],
              [field |-> "total_execution_time_ms", by |-> duration_ms],
              [field |-> IF success THEN "functions_succeeded" ELSE "functions_failed",
               by |-> 1]>>
      [] OTHER -> <<>>

\* get_metrics on the data the read guard gives.  event_total -
\* data.events_failed is a u64 subtraction: when events_failed is the larger
\* one, a build with overflow checks panics there and a build without them
\* wraps around.
MetricsCollector_get_metrics(data, overflow_checks) ==
    LET event_total == data.events_published + data.events_replayed
        event_success_rate ==
            IF event_total > 0
            THEN Ratio(100 * wrapping_sub(event_total, data.events_failed), event_total)
            ELSE Ratio(100, 1)
        function_success_rate ==
            IF data.functions_executed > 0
            THEN Ratio(100 * data.functions_succeeded, data.functions_executed)
            ELSE Ratio(100, 1)
        avg_execution_time ==
            IF data.functions_executed > 0
            THEN Ratio(data.total_execution_time_ms, data.functions_executed)
            ELSE Ratio(0, 1)
    IN  IF event_total > 0 /\ data.events_failed > event_total /\ overflow_checks
        THEN [panicked |-> TRUE, value |-> None]
        ELSE [panicked |-> FALSE,
              value |-> Some([events |-> [published |-> data.events_published,
                                          replayed |-> data.events_replayed,
                                          failed |-> data.events_failed,
                                          success_rate |-> event_success_rate],
                              functions |-> [executed |-> data.functions_executed,
                                             succeeded |-> data.functions_succeeded,
                                             failed |-> data.functions_failed,
                                             success_rate |-> function_success_rate,
                                             avg_execution_time_ms |-> avg_execution_time]])]

\* no direct call was made
NoCall == [fn |-> "none"]

\* the tokio RwLocks: around the stream adapter (Arc<RwLock<NatsClient>>, shared
\* by the publisher, the event log and the handlers) and around the counters
RwLocks == {"nats_client", "metrics"}
\* RwLock::new: no writer (0) and no reader
NoHolders == [lock \in RwLocks |-> [writer |-> 0, readers |-> {}]]

---------------------------------------------------------------------------
(* HTTP handlers: server.rs.  A handler step runs the handler up to its    *)
(* response; the fan-out it spawns runs afterwards, one function per step. *)

\* ids a client may ask for: every id handed out so far and one unknown id
AskIds == { Uuid_new_v4(n) : n \in 0..Len(created) }
\* the type and limit parameters of GET /events
ListTypes == {None, Some(ComNexus \o <<"a", ".", "b">>)}
Limits == {1, ScanWindow + 1}

NewTask(origin, event) ==
    [origin |-> origin, event |-> event, pc |-> "spawned",
     queue |-> <<>>, invoked |-> <<>>, results |-> <<>>]

ErrorResponse(op, code) == [op |-> op, code |-> code, body |-> [status |-> "error"]]

\* Mutant: the fan-out is spawned before the publish result is looked at.
event_handler_spawn_first(path, data, ack) ==
    LET event_type == ComNexus \o replace(path, "/", ".")
        cloud_event == with_data(CloudEvent_new(event_type, "/api/webhook",
                                                Uuid_new_v4(Len(created)),
                                                Utc_now(acks)), data)
        published == EventPublisher_publish(connected, log, cloud_event, ack)
    IN  /\ Len(log) < MaxLog /\ Len(tasks) < MaxTasks
        /\ tasks' = Append(tasks, NewTask("webhook", cloud_event))
        /\ log' = published.log
        /\ IF published.ok
           THEN /\ resp' = [op |-> "webhook", code |-> 200,
                            body |-> [event_id |-> cloud_event.id, status |-> "published",
                                      event_type |-> event_type]]
                /\ created' = Append(created, [event |-> cloud_event, via |-> "webhook"])
                /\ acks' = acks + 1
           ELSE /\ resp' = ErrorResponse("webhook", 500)
                /\ UNCHANGED <<created, acks>>
        /\ UNCHANGED <<direct, metrics, connected, catalog, cache>>

\* POST /webhook/*path
event_handler(path, data, ack) ==
    LET event_type == ComNexus \o replace(path, "/", ".")
        cloud_event == with_data(CloudEvent_new(event_type, "/api/webhook",
                                                Uuid_new_v4(Len(created)),
                                                Utc_now(acks)), data)
        event_id == cloud_event.id
        published == EventPublisher_publish(connected, log, cloud_event, ack)
    IN  /\ ack => Len(log) < MaxLog /\ Len(created) < MaxEvents /\ Len(tasks) < MaxTasks
        /\ IF published.ok
           THEN /\ log' = published.log
                /\ tasks' = Append(tasks, NewTask("webhook", cloud_event))
                /\ resp' = [op |-> "webhook", code |-> 200,
                            body |-> [event_id |-> event_id, status |-> "published",
                                      event_type |-> event_type]]
                /\ created' = Append(created, [event |-> cloud_event, via |-> "webhook"])
                /\ acks' = acks + 1
           ELSE /\ resp' = ErrorResponse("webhook", 500)
                /\ UNCHANGED <<log, tasks, created, acks>>
        /\ UNCHANGED <<direct, metrics, connected, catalog, cache>>

\* Mutant: POST /events spawns the fan-out as POST /webhook does.
event_handler_root_spawns(body_type, data, ack) ==
    LET event_type == IF body_type # None THEN body_type[1] ELSE GenericEvent
        full_event_type == ComNexus \o event_type
        cloud_event == with_data(CloudEvent_new(full_event_type, "/api/events",
                                                Uuid_new_v4(Len(created)),
                                                Utc_now(acks)), data)
        published == EventPublisher_publish(connected, log, cloud_event, ack)
    IN  /\ ack => Len(log) < MaxLog /\ Len(created) < MaxEvents /\ Len(tasks) < MaxTasks
        /\ IF published.ok
           THEN /\ log' = published.log
                /\ tasks' = Append(tasks, NewTask("webhook", cloud_event))
                /\ resp' = [op |-> "events", code |-> 200,
                            body |-> [event_id |-> cloud_event.id, status |-> "published",
                                      event_type |-> full_event_type]]
                /\ created' = Append(created, [event |-> cloud_event, via |-> "events"])
                /\ acks' = acks + 1
           ELSE /\ resp' = ErrorResponse("events", 500)
                /\ UNCHANGED <<log, tasks, created, acks>>
        /\ UNCHANGED <<direct, metrics, connected, catalog, cache>>

\* POST /events: the body's event_type field, when present, is taken out of
\* the data and names the type
event_handler_root(body_type, data, ack) ==
    LET event_type == IF body_type # None THEN body_type[1] ELSE GenericEvent
        full_event_type == ComNexus \o event_type
        cloud_event == with_data(CloudEvent_new(full_event_type, "/api/events",
                                                Uuid_new_v4(Len(created)),
                                                Utc_now(acks)), data)
        event_id == cloud_event.id
        published == EventPublisher_publish(connected, log, cloud_event, ack)
    IN  /\ ack => Len(log) < MaxLog /\ Len(created) < MaxEvents
        /\ IF published.ok
           THEN /\ log' = published.log
                /\ resp' = [op |-> "events", code |-> 200,
                            body |-> [event_id |-> event_id, status |-> "published",
                                      event_type |-> full_event_type]]
                /\ created' = Append(created, [event |-> cloud_event, via |-> "events"])
                /\ acks' = acks + 1
           ELSE /\ resp' = ErrorResponse("events", 500)
                /\ UNCHANGED <<log, created, acks>>
        /\ UNCHANGED <<direct, metrics, connected, catalog, cache, tasks>>

\* GET /events/:event_id
get_event_handler(event_id, up) ==
    LET got == get_event_by_id(connected, log, event_id, up)
    IN  /\ resp' = IF ~got.ok THEN ErrorResponse("get", 500)
                   ELSE IF got.value = None THEN ErrorResponse("get", 404)
                   ELSE [op |-> "get", code |-> 200,
                         body |-> [event_id |-> event_id, status |-> "found",
                                   event |-> got.value[1]]]
        /\ UNCHANGED <<direct, metrics, connected, catalog, log, cache, tasks, created, acks>>

\* GET /events?type=&limit=
list_events_handler(event_type, limit, up_count, up_list) ==
    LET total == get_event_count(connected, log, up_count)
        listed == list_events(connected, log, event_type, limit, up_list)
    IN  /\ resp' = IF ~total.ok THEN ErrorResponse("list", 500)
                   ELSE IF ~listed.ok THEN ErrorResponse("list", 500)
                   ELSE [op |-> "list", code |-> 200,
                         body |-> [status |-> "listed", events |-> listed.value,
                                   count |-> Len(listed.value), total |-> total.value]]
        /\ UNCHANGED <<direct, metrics, connected, catalog, log, cache, tasks, created, acks>>

\* Mutant: replay builds a new envelope from the stored type, source and data.
replay_handler_fresh(event_id, up, ack) ==
    LET got == get_event_by_id(connected, log, event_id, up)
        event == with_data(CloudEvent_new(got.value[1].event_type, got.value[1].source,
                                          Uuid_new_v4(Len(created)), Utc_now(acks)),
                           got.value[1].data[1])
        published == EventPublisher_publish(connected, log, event, ack)
    IN  /\ ack => Len(log) < MaxLog /\ Len(tasks) < MaxTasks
        /\ IF ~got.ok \/ got.value = None \/ ~published.ok
           THEN /\ resp' = ErrorResponse("replay", 500)
                /\ UNCHANGED <<log, tasks, acks>>
           ELSE /\ log' = published.log
                /\ tasks' = Append(tasks, NewTask("replay", event))
                /\ resp' = [op |-> "replay", code |-> 200,
                            body |-> [event_id |-> event_id, status |-> "replayed",
                                      message |-> event.event_type]]
                /\ acks' = acks + 1
        /\ UNCHANGED <<direct, metrics, connected, catalog, cache, created>>

\* Mutant: replay republishes and answers, the fan-out is not spawned.
replay_handler_no_fanout(event_id, up, ack) ==
    LET got == get_event_by_id(connected, log, event_id, up)
        published == EventPublisher_publish(connected, log, got.value[1], ack)
    IN  /\ ack => Len(log) < MaxLog /\ Len(tasks) < MaxTasks
        /\ IF ~got.ok \/ got.value = None \/ ~published.ok
           THEN /\ resp' = ErrorResponse("replay", 500)
                /\ UNCHANGED <<log, acks>>
           ELSE /\ log' = published.log
                /\ resp' = [op |-> "replay", code |-> 200,
                            body |-> [event_id |-> event_id, status |-> "replayed",
                                      message |-> got.value[1].event_type]]
                /\ acks' = acks + 1
        /\ UNCHANGED <<direct, metrics, connected, catalog, cache, tasks, created>>

\* POST /replay/:event_id
replay_handler(event_id, up, ack) ==
    LET got == get_event_by_id(connected, log, event_id, up)
        event == got.value[1]
        published == EventPublisher_publish(connected, log, event, ack)
    IN  /\ ack => Len(log) < MaxLog /\ Len(tasks) < MaxTasks
        /\ IF ~got.ok
           THEN /\ resp' = ErrorResponse("replay", 500)
                /\ UNCHANGED <<log, tasks, acks>>
           ELSE IF got.value = None
           THEN /\ resp' = [op |-> "replay", code |-> 200,
                            body |-> [event_id |-> event_id, status |-> "not_found",
                                      message |-> "Event not found"]]
                /\ UNCHANGED <<log, tasks, acks>>
           ELSE IF published.ok
           THEN /\ log' = published.log
                /\ tasks' = Append(tasks, NewTask("replay", event))
                /\ resp' = [op |-> "replay", code |-> 200,
                            body |-> [event_id |-> event_id, status |-> "replayed",
                                      message |-> event.event_type]]
                /\ acks' = acks + 1
           ELSE /\ resp' = ErrorResponse("replay", 500)
                /\ UNCHANGED <<log, tasks, acks>>
        /\ UNCHANGED <<direct, metrics, connected, catalog, cache, created>>

\* POST /execute/:event_id.  execute_matching_functions runs inside the
\* handler; its only shared state is the module cache, read and written under
\* the cache mutex, so the handler is one step.
execute_handler(event_id, up) ==
    LET got == get_event_by_id(connected, log, event_id, up)
        run == execute_matching_functions(catalog, cache, got.value[1])
    IN  /\ IF ~got.ok
           THEN /\ resp' = ErrorResponse("execute", 500)
                /\ UNCHANGED cache
           ELSE IF got.value = None
           THEN /\ resp' = ErrorResponse("execute", 404)
                /\ UNCHANGED cache
           ELSE /\ resp' = [op |-> "execute", code |-> 200,
                            body |-> [event_id |-> event_id, status |-> "executed",
                                      functions_executed |->
                                          [i \in 1..Len(run.results) |->
                                              [function_name |-> run.results[i].name,
                                               status |-> "success",
                                               output |-> run.results[i].output]]]]
                /\ cache' = run.cache
        /\ UNCHANGED <<direct, metrics, connected, catalog, log, tasks, created, acks>>

---------------------------------------------------------------------------
(* execute_matching_functions in a task of tokio::spawn, one function per   *)
(* step: executor.rs.  The task's result is only logged.                   *)

\* Mutant: dispatch looks at the module cache and leaves out the functions
\* whose module is compiled already.
TaskDispatch_skips_cached(t) ==
    LET task == tasks[t]
        all == find_matching_functions(catalog, task.event.event_type)
        matching_functions ==
            SelectSeq(all, LAMBDA n :
                \A i \in DOMAIN catalog :
                    catalog[i].name = n =>
                        \A b \in Range(ReadModule(catalog[i].code)) : <<"module", b>> \notin cache)
        after == IF matching_functions = <<>>
                 THEN [task EXCEPT !.pc = "done"]
                 ELSE [task EXCEPT !.pc = "running", !.queue = matching_functions]
    IN  /\ task.pc = "spawned"
        /\ tasks' = [tasks EXCEPT ![t] = after]
        /\ UNCHANGED <<direct, metrics, connected, catalog, log, cache, resp, created, acks>>

\* find_matching_functions, and the early return when nothing matches
TaskDispatch(t) ==
    LET task == tasks[t]
        matching_functions == find_matching_functions(catalog, task.event.event_type)
        after == IF matching_functions = <<>>
                 THEN [task EXCEPT !.pc = "done"]
                 ELSE [task EXCEPT !.pc = "running", !.queue = matching_functions]
    IN  /\ task.pc = "spawned"
        /\ tasks' = [tasks EXCEPT ![t] = after]
        /\ UNCHANGED <<direct, metrics, connected, catalog, log, cache, resp, created, acks>>

\* Mutant: the first failing function ends the loop (the error is propagated).
TaskExecute_stops_on_error(t) ==
    LET task == tasks[t]
        func_name == Head(task.queue)
        ran == execute_function(catalog, cache, func_name, task.event)
        invoked == Append(task.invoked, [function |-> func_name,
                                         input |-> to_json_bytes(task.event)])
        after == IF ran.ok
                 THEN [task EXCEPT
                         !.queue = Tail(task.queue),
                         !.invoked = invoked,
                         !.results = Append(task.results,
                                            [name |-> func_name, output |-> ran.output[1]]),
                         !.pc = IF Tail(task.queue) = <<>> THEN "done" ELSE "running"]
                 ELSE [task EXCEPT !.queue = <<>>, !.invoked = invoked, !.pc = "done"]
    IN  /\ task.pc = "running"
        /\ cache' = ran.cache
        /\ tasks' = [tasks EXCEPT ![t] = after]
        /\ UNCHANGED <<direct, metrics, connected, catalog, log, resp, created, acks>>

\* Mutant: the invocations of one fan-out are not awaited one after the other,
\* any function still to run may complete next.
TaskExecute_any_order(t) ==
    \E k \in DOMAIN tasks[t].queue :
        LET task == tasks[t]
            func_name == task.queue[k]
            rest == SubSeq(task.queue, 1, k - 1) \o SubSeq(task.queue, k + 1, Len(task.queue))
            ran == execute_function(catalog, cache, func_name, task.event)
            after == [task EXCEPT
                        !.queue = rest,
                        !.invoked = Append(task.invoked,
                                           [function |-> func_name,
                                            input |-> to_json_bytes(task.event)]),
                        !.results = IF ran.ok
                                    THEN Append(task.results,
                                                [name |-> func_name, output |-> ran.output[1]])
                                    ELSE task.results,
                        !.pc = IF rest = <<>> THEN "done" ELSE "running"]
        IN  /\ task.pc = "running"
            /\ cache' = ran.cache
            /\ tasks' = [tasks EXCEPT ![t] = after]
            /\ UNCHANGED <<direct, metrics, connected, catalog, log, resp, created, acks>>

\* one iteration of the loop over matching_functions
TaskExecute(t) ==
    LET task == tasks[t]
        func_name == Head(task.queue)
        ran == execute_function(catalog, cache, func_name, task.event)
        after == [task EXCEPT
                    !.queue = Tail(task.queue),
                    !.invoked = Append(task.invoked,
                                       [function |-> func_name,
                                        input |-> to_json_bytes(task.event)]),
                    !.results = IF ran.ok
                                THEN Append(task.results,
                                            [name |-> func_name, output |-> ran.output[1]])
                                ELSE task.results,
                    !.pc = IF Tail(task.queue) = <<>> THEN "done" ELSE "running"]
    IN  /\ task.pc = "running"
        /\ cache' = ran.cache
        /\ tasks' = [tasks EXCEPT ![t] = after]
        /\ UNCHANGED <<direct, metrics, connected, catalog, log, resp, created, acks>>

TaskStep(t) == TaskDispatch(t) \/ TaskExecute(t)

---------------------------------------------------------------------------
(* Specification *)

\* after startup: connect_with_retry succeeded or not, the configuration is
\* loaded, the stream is empty
Init ==
    /\ connected \in { is_connected(connect_with_retry(NatsClient_new, 1, ConnectRetries,
                                                       up_from).self) :
                          up_from \in 1..(ConnectRetries + 1) }
    /\ catalog \in Catalogs
    /\ log = <<>>
    /\ cache = {}
    /\ tasks = <<>>
    /\ resp = [op |-> "none", code |-> 0, body |-> [status |-> "none"]]
    /\ created = <<>>
    /\ acks = 0
    /\ metrics = MetricsCollector_new
    /\ call = NoCall
    /\ callers = <<>>
    /\ mutex = 0
    /\ compilations = <<>>
    /\ streams = IF connected
                 THEN create_stream(TRUE, NoStreams, <<>>, StreamName, TRUE).streams
                 ELSE NoStreams
    /\ rwlocks = NoHolders

Ingest == \E path \in Paths, data \in Objects, ack \in BOOLEAN :
              event_handler(path, data, ack)
IngestRoot == \E body_type \in BodyTypes, data \in Objects, ack \in BOOLEAN :
                  event_handler_root(body_type, data, ack)
GetEvent == \E event_id \in AskIds, up \in BOOLEAN : get_event_handler(event_id, up)
ListEvents == \E event_type \in ListTypes, limit \in Limits, up_count \in BOOLEAN,
                 up_list \in BOOLEAN :
                  list_events_handler(event_type, limit, up_count, up_list)
Replay == \E event_id \in AskIds, up \in BOOLEAN, ack \in BOOLEAN :
              replay_handler(event_id, up, ack)
Execute == \E event_id \in AskIds, up \in BOOLEAN : execute_handler(event_id, up)
Dispatch == \E t \in 1..Len(tasks) : TaskDispatch(t)
RunFunction == \E t \in 1..Len(tasks) : TaskExecute(t)

Next ==
    \/ Ingest
    \/ IngestRoot
    \/ GetEvent
    \/ ListEvents
    \/ Replay
    \/ Execute
    \/ Dispatch
    \/ RunFunction

Spec == Init /\ [][Next]_vars

\* The pipeline without the two read-only handlers (GET /events and
\* GET /events/:id write nothing but their answer), under the fairness of the
\* async runtime: every spawned task is scheduled until it returns.
WriteNext ==
    \/ Ingest
    \/ IngestRoot
    \/ Replay
    \/ Execute
    \/ Dispatch
    \/ RunFunction

FairSpec ==
    /\ Init
    /\ [][WriteNext]_vars
    /\ \A t \in 1..MaxTasks : WF_vars(t <= Len(tasks) /\ TaskStep(t))

---------------------------------------------------------------------------
(* Dispatch called directly: FunctionExecutor::new(config) followed by     *)
(* find_matching_functions(event_type), for the configurations validate()  *)
(* accepts.                                                                *)

\* longest catalog explored
MaxFunctions == 2

User == <<"u", "s", "e", "r">>
UserCreated == ComNexus \o User \o <<".", "c", "r", "e", "a", "t", "e", "d">>

FunctionNames == <<"fA", "fB", "fC">>
\* on.nats: absent, or a subject
NatsTriggers == {None, Some(<<>>), Some(<<"a">>), Some(User), Some(ComNexus \o <<"a", ".", "b">>)}
\* FunctionConfig::validate: at least one trigger
FunctionConfigs(name) ==
    { [name |-> name, http |-> h, nats |-> n, code |-> "a.wasm"] :
        h \in BOOLEAN, n \in NatsTriggers } \ { [name |-> name, http |-> FALSE, nats |-> None, code |-> "a.wasm"] }
\* NexusConfig::validate: no two functions of one name
ValidCatalogs ==
    UNION { { c \in [1..n -> UNION { FunctionConfigs(FunctionNames[k]) : k \in DOMAIN FunctionNames }] :
                \A i, j \in 1..n : i # j => c[i].name # c[j].name } : n \in 0..MaxFunctions }
\* the event types asked for
DispatchTypes == {<<>>, <<"a">>, <<"b">>, ComNexus \o <<"a">>, UserCreated}

DispatchInit ==
    /\ connected = FALSE
    /\ catalog \in ValidCatalogs
    /\ log = <<>>
    /\ cache = {}
    /\ tasks = <<>>
    /\ resp = [op |-> "none", code |-> 0, body |-> [status |-> "none"]]
    /\ created = <<>>
    /\ acks = 0
    /\ metrics = MetricsCollector_new
    /\ call = NoCall
    /\ callers = <<>>
    /\ mutex = 0
    /\ compilations = <<>>
    /\ streams = NoStreams
    /\ rwlocks = NoHolders

CallDispatch == \E event_type \in DispatchTypes :
    /\ call' = [fn |-> "find_matching_functions", event_type |-> event_type,
                result |-> find_matching_functions(catalog, event_type)]
    /\ UNCHANGED <<connected, catalog, log, cache, tasks, resp, created, acks,
                   metrics, streams, rwlocks, callers, mutex, compilations>>

DispatchNext == CallDispatch

DispatchSpec == DispatchInit /\ [][DispatchNext]_vars

---------------------------------------------------------------------------
(* The sandbox executor called directly, one call after the other:         *)
(* WasmExecutor::new, then execute, execute_func and clear_cache.          *)

\* longest history of Module::new calls and clears explored
MaxCompilations == 3

\* module bytes: see Compiles, Instantiates and ExportOf
Modules == {"mA", "mB", "mC", "mE", "mI"}
\* names asked of execute_func
FuncNames == {"run", "gone"}
\* inputs of two lengths
Inputs ==
    { to_json_bytes(CloudEvent_new(ComNexus \o <<"a">>, "/api/webhook",
                                   Uuid_new_v4(0), Utc_now(0))),
      to_json_bytes(with_data(CloudEvent_new(ComNexus \o <<"a", ".", "b">>, "/api/webhook",
                                             Uuid_new_v4(1), Utc_now(0)), "o1")) }

\* WasmExecutor::new: the cache is empty
SandboxInit ==
    /\ connected = FALSE
    /\ catalog = <<>>
    /\ log = <<>>
    /\ cache = {}
    /\ tasks = <<>>
    /\ resp = [op |-> "none", code |-> 0, body |-> [status |-> "none"]]
    /\ created = <<>>
    /\ acks = 0
    /\ metrics = MetricsCollector_new
    /\ call = NoCall
    /\ callers = <<>>
    /\ mutex = 0
    /\ compilations = <<>>
    /\ streams = NoStreams
    /\ rwlocks = NoHolders

CallExecute == \E module_bytes \in Modules, input \in Inputs :
    LET ran == WasmExecutor_execute(cache, module_bytes, input)
    IN  /\ ran.compiled => Len(compilations) < MaxCompilations
        /\ call' = [fn |-> "execute", module_bytes |-> module_bytes, input |-> input,
                    ok |-> ran.ok, output |-> ran.output, compiled |-> ran.compiled,
                    instantiated |-> ran.instantiated, export |-> ran.start]
        /\ cache' = ran.cache
        /\ compilations' = IF ran.compiled
                           THEN Append(compilations, <<"module", module_bytes>>)
                           ELSE compilations
        /\ UNCHANGED <<connected, catalog, log, tasks, resp, created, acks,
                       metrics, streams, rwlocks, callers, mutex>>

CallExecuteFunc == \E module_bytes \in Modules, func_name \in FuncNames, input \in Inputs :
    LET ran == WasmExecutor_execute_func(cache, module_bytes, func_name, input)
    IN  /\ ran.compiled => Len(compilations) < MaxCompilations
        /\ call' = [fn |-> "execute_func", module_bytes |-> module_bytes,
                    func_name |-> func_name, input |-> input,
                    ok |-> ran.ok, output |-> ran.output, compiled |-> ran.compiled,
                    instantiated |-> ran.instantiated, export |-> ran.func]
        /\ cache' = ran.cache
        /\ compilations' = IF ran.compiled
                           THEN Append(compilations, <<"module", module_bytes, func_name>>)
                           ELSE compilations
        /\ UNCHANGED <<connected, catalog, log, tasks, resp, created, acks,
                       metrics, streams, rwlocks, callers, mutex>>

CallClearCache ==
    /\ Len(compilations) < MaxCompilations
    /\ call' = [fn |-> "clear_cache"]
    /\ cache' = WasmExecutor_clear_cache(cache)
    /\ compilations' = Append(compilations, <<"clear">>)
    /\ UNCHANGED <<connected, catalog, log, tasks, resp, created, acks,
                   metrics, streams, rwlocks, callers, mutex>>

SandboxNext ==
    \/ CallExecute
    \/ CallExecuteFunc
    \/ CallClearCache

SandboxSpec == SandboxInit /\ [][SandboxNext]_vars

---------------------------------------------------------------------------
(* WasmExecutor::execute called by concurrent tasks on one executor.  The  *)
(* steps of a caller are the statements of execute and of                   *)
(* get_or_compile_module; the MutexGuard `cache` lives from lock() to the   *)
(* return of get_or_compile_module.                                         *)

\* callers explored
MaxCallers == 3

\* module bytes the callers pass
CallerModules == {"mA", "mB", "mC"}

CacheKey(module_bytes) == <<"module", module_bytes>>

\* a task calls execute(module_bytes, input) and reaches lock()
ExecuteEnter == \E module_bytes \in CallerModules :
    /\ Len(callers) < MaxCallers
    /\ callers' = Append(callers, [module_bytes |-> module_bytes, pc |-> "lock",
                                    hit |-> FALSE, ok |-> FALSE])
    /\ UNCHANGED <<connected, catalog, log, cache, tasks, resp, created, acks,
                   metrics, streams, rwlocks, call, mutex, compilations>>

\* self.module_cache.lock().unwrap(): blocks while another caller holds it
Lock(t) ==
    /\ callers[t].pc = "lock"
    /\ mutex = 0
    /\ mutex' = t
    /\ callers' = [callers EXCEPT ![t].pc = "lookup"]
    /\ UNCHANGED <<connected, catalog, log, cache, tasks, resp, created, acks,
                   metrics, streams, rwlocks, call, compilations>>

\* Mutant: the guard is dropped after a miss and taken again for the insert.
Lookup_unlocks_on_miss(t) ==
    /\ callers[t].pc = "lookup"
    /\ IF CacheKey(callers[t].module_bytes) \in cache
       THEN callers' = [callers EXCEPT ![t].pc = "instantiate", ![t].hit = TRUE]
       ELSE callers' = [callers EXCEPT ![t].pc = "compile"]
    /\ mutex' = 0
    /\ UNCHANGED <<connected, catalog, log, cache, tasks, resp, created, acks,
                   metrics, streams, rwlocks, call, compilations>>

\* cache.get(cache_key): a hit returns the module and drops the guard
Lookup(t) ==
    /\ callers[t].pc = "lookup"
    /\ IF CacheKey(callers[t].module_bytes) \in cache
       THEN /\ callers' = [callers EXCEPT ![t].pc = "instantiate", ![t].hit = TRUE]
            /\ mutex' = 0
       ELSE /\ callers' = [callers EXCEPT ![t].pc = "compile"]
            /\ UNCHANGED mutex
    /\ UNCHANGED <<connected, catalog, log, cache, tasks, resp, created, acks,
                   metrics, streams, rwlocks, call, compilations>>

\* Module::new: an error returns from execute and drops the guard
Compile(t) ==
    /\ callers[t].pc = "compile"
    /\ compilations' = Append(compilations, CacheKey(callers[t].module_bytes))
    /\ IF Compiles(callers[t].module_bytes)
       THEN /\ callers' = [callers EXCEPT ![t].pc = "insert"]
            /\ UNCHANGED mutex
       ELSE /\ callers' = [callers EXCEPT ![t].pc = "returned"]
            /\ mutex' = 0
    /\ UNCHANGED <<connected, catalog, log, cache, tasks, resp, created, acks,
                   metrics, streams, rwlocks, call>>

\* cache.insert, and the return that drops the guard
Insert(t) ==
    /\ callers[t].pc = "insert"
    /\ cache' = cache \cup {CacheKey(callers[t].module_bytes)}
    /\ mutex' = 0
    /\ callers' = [callers EXCEPT ![t].pc = "instantiate"]
    /\ UNCHANGED <<connected, catalog, log, tasks, resp, created, acks,
                   metrics, streams, rwlocks, call, compilations>>

\* linker.instantiate_async, then _start and the output
Instantiate(t) ==
    /\ callers[t].pc = "instantiate"
    /\ callers' = [callers EXCEPT ![t].pc = "returned",
                                   ![t].ok = Instantiates(callers[t].module_bytes)]
    /\ UNCHANGED <<connected, catalog, log, cache, tasks, resp, created, acks,
                   metrics, streams, rwlocks, call, mutex, compilations>>

Locks == \E t \in DOMAIN callers : Lock(t)
Lookups == \E t \in DOMAIN callers : Lookup(t)
CompileSteps == \E t \in DOMAIN callers : Compile(t)
Inserts == \E t \in DOMAIN callers : Insert(t)
Instantiations == \E t \in DOMAIN callers : Instantiate(t)

CacheNext ==
    \/ ExecuteEnter
    \/ Locks
    \/ Lookups
    \/ CompileSteps
    \/ Inserts
    \/ Instantiations

CacheSpec == SandboxInit /\ [][CacheNext]_vars

---------------------------------------------------------------------------
(* Configuration loading: config/mod.rs.  serde_yaml has parsed the file   *)
(* into a NexusConfig; from_str validates it.                              *)

MaxConfigFunctions == 2   \* functions of a parsed configuration

ValidRuntimes == {"wasi-preview1", "wasi-preview2"}

ConfigOk == [ok |-> TRUE, error |-> None]
ConfigErr(message) == [ok |-> FALSE, error |-> Some(message)]

FunctionConfig_validate(func) ==
    IF func.runtime \notin ValidRuntimes
    THEN ConfigErr(<<"Invalid runtime ", func.runtime, " for function ", func.name>>)
    ELSE IF func.code = ""
    THEN ConfigErr(<<"Function ", func.name, " has empty code path">>)
    ELSE IF ~func.http /\ func.nats = None
    THEN ConfigErr(<<"Function ", func.name, " must have at least one trigger (http or nats)">>)
    ELSE ConfigOk

\* the loop over names.insert(&func.name): the first name met a second time
RECURSIVE FirstDuplicate(_, _)
FirstDuplicate(functions, names) ==
    IF functions = <<>> THEN None
    ELSE IF Head(functions).name \in names THEN Some(Head(functions).name)
    ELSE FirstDuplicate(Tail(functions), names \cup {Head(functions).name})

\* the loop over func.validate()?: the first error ends it
RECURSIVE ValidateEach(_)
ValidateEach(functions) ==
    IF functions = <<>> THEN ConfigOk
    ELSE IF ~FunctionConfig_validate(Head(functions)).ok
    THEN FunctionConfig_validate(Head(functions))
    ELSE ValidateEach(Tail(functions))

\* Mutant: the names are not compared.
NexusConfig_validate_any_names(config) ==
    IF config.version # "v1"
    THEN ConfigErr(<<"Unsupported configuration version: ", config.version>>)
    ELSE ValidateEach(config.functions)

NexusConfig_validate(config) ==
    IF config.version # "v1"
    THEN ConfigErr(<<"Unsupported configuration version: ", config.version>>)
    ELSE IF FirstDuplicate(config.functions, {}) # None
    THEN ConfigErr(<<"Duplicate function name: ", FirstDuplicate(config.functions, {})[1]>>)
    ELSE ValidateEach(config.functions)

\* from_str after serde_yaml::from_str: Ok(config) only when validate is Ok
NexusConfig_from_str(config) ==
    LET validated == NexusConfig_validate(config)
    IN  [ok |-> validated.ok, error |-> validated.error,
         config |-> IF validated.ok THEN Some(config) ELSE None]

\* what serde_yaml can hand to validate
ParsedFunctions ==
    [ name : {"f", "g"},
      http : BOOLEAN,
      nats : {None, Some(<<"a">>)},
      runtime : ValidRuntimes \cup {"native"},
      code : {"", "a.wasm"} ]
ParsedConfigs ==
    [ version : {"v1", "v2"},
      functions : UNION { [1..n -> ParsedFunctions] : n \in 0..MaxConfigFunctions } ]

\* a configuration file has been parsed, no catalog is loaded
ConfigInit ==
    /\ call \in { [fn |-> "parsed", config |-> config] : config \in ParsedConfigs }
    /\ catalog = <<>>
    /\ connected = FALSE
    /\ streams = NoStreams
    /\ rwlocks = NoHolders
    /\ log = <<>>
    /\ cache = {}
    /\ tasks = <<>>
    /\ resp = [op |-> "none", code |-> 0, body |-> [status |-> "none"]]
    /\ created = <<>>
    /\ acks = 0
    /\ metrics = MetricsCollector_new
    /\ callers = <<>>
    /\ mutex = 0
    /\ compilations = <<>>

CallFromStr ==
    LET loaded == NexusConfig_from_str(call.config)
    IN  /\ call.fn = "parsed"
        /\ call' = [fn |-> "from_str", config |-> call.config,
                    ok |-> loaded.ok, error |-> loaded.error]
        /\ catalog' = IF loaded.ok THEN loaded.config[1].functions ELSE catalog
        /\ UNCHANGED <<connected, log, cache, tasks, resp, created, acks,
                       metrics, streams, rwlocks, callers, mutex, compilations>>

ConfigNext == CallFromStr

ConfigSpec == ConfigInit /\ [][ConfigNext]_vars

---------------------------------------------------------------------------
(* Webhook ingestion adapter: api-gateway/src/webhook.rs *)

MaxPath == 3   \* characters of a request path after its first segment

EventsPrefix == <<"/", "e", "v", "e", "n", "t", "s", "/">>
WebhookPrefix == <<"/", "w", "e", "b", "h", "o", "o", "k", "/">>

\* str::strip_prefix
strip_prefix(s, prefix) ==
    IF Len(s) >= Len(prefix) /\ SubSeq(s, 1, Len(prefix)) = prefix
    THEN Some(SubSeq(s, Len(prefix) + 1, Len(s)))
    ELSE None

\* Option::unwrap_or
unwrap_or(option, default) == IF option = None THEN default ELSE option[1]

\* WebhookHandler::to_cloud_event: the serde_json::json! object it returns
WebhookHandler_to_cloud_event(path, body, uuid, now) ==
    LET event_type == replace(unwrap_or(strip_prefix(path, EventsPrefix),
                                        <<"u", "n", "k", "n", "o", "w", "n">>),
                              "/", ".")
    IN  [k \in KnownKeys |->
            CASE k = "specversion" -> "1.0"
              [] k = "type" -> ComNexus \o event_type
              [] k = "source" -> "/api/webhook"
              [] k = "id" -> uuid
              [] k = "time" -> now
              [] k = "datacontenttype" -> "application/json"
              [] k = "data" -> body]

\* request paths: under /events/, under /webhook/, under another segment, or
\* without a leading segment
WebhookPaths ==
    { prefix \o rest :
        prefix \in {EventsPrefix, WebhookPrefix, <<"/", "x", "/">>, <<>>},
        rest \in UNION { [1..n -> {"a", "b", "/"}] : n \in 0..MaxPath } }

WebhookInit ==
    /\ call = NoCall
    /\ catalog = <<>>
    /\ connected = FALSE
    /\ streams = NoStreams
    /\ rwlocks = NoHolders
    /\ log = <<>>
    /\ cache = {}
    /\ tasks = <<>>
    /\ resp = [op |-> "none", code |-> 0, body |-> [status |-> "none"]]
    /\ created = <<>>
    /\ acks = 0
    /\ metrics = MetricsCollector_new
    /\ callers = <<>>
    /\ mutex = 0
    /\ compilations = <<>>

CallToCloudEvent == \E path \in WebhookPaths, body \in Objects :
    /\ call' = [fn |-> "to_cloud_event", path |-> path,
                event |-> WebhookHandler_to_cloud_event(path, body, Uuid_new_v4(0),
                                                        Utc_now(0))]
    /\ UNCHANGED <<connected, catalog, log, cache, tasks, resp, created, acks,
                   metrics, streams, rwlocks, callers, mutex, compilations>>

WebhookSpec == WebhookInit /\ [][CallToCloudEvent]_vars

---------------------------------------------------------------------------
(* Envelope codec, called directly: to_json_bytes and back *)

MaxExtensions == 2   \* extension attributes of an envelope

ExtensionKeys == <<"traceparent", "x", "y", "z">>

\* the envelopes CloudEvent::new, with_data and with_extension build, and
\* those with datacontenttype set to None
Envelopes ==
    { [CloudEvent_new(event_type, "/source", Uuid_new_v4(n), Utc_now(0)) EXCEPT
          !.datacontenttype = datacontenttype, !.data = data, !.extensions = extensions] :
        event_type \in {<<"t">>, ComNexus \o <<"a">>},
        n \in 0..1,
        datacontenttype \in {None, Some("application/json")},
        data \in {None, Some("o1"), Some(JNull)},
        extensions \in UNION { [keys -> {"v", JNull}] :
                                 keys \in SUBSET { ExtensionKeys[k] :
                                            k \in DOMAIN ExtensionKeys \cap 1..MaxExtensions } } }

\* an envelope has been built
CodecInit ==
    /\ call \in { [fn |-> "built", event |-> event] : event \in Envelopes }
    /\ catalog = <<>>
    /\ connected = FALSE
    /\ streams = NoStreams
    /\ rwlocks = NoHolders
    /\ log = <<>>
    /\ cache = {}
    /\ tasks = <<>>
    /\ resp = [op |-> "none", code |-> 0, body |-> [status |-> "none"]]
    /\ created = <<>>
    /\ acks = 0
    /\ metrics = MetricsCollector_new
    /\ callers = <<>>
    /\ mutex = 0
    /\ compilations = <<>>

\* serde_json::from_slice(&event.to_json_bytes()?)
CallRoundTrip ==
    /\ call.fn = "built"
    /\ call' = [fn |-> "round_trip", event |-> call.event,
                bytes |-> to_json_bytes(call.event),
                back |-> from_slice(to_json_bytes(call.event))]
    /\ UNCHANGED <<connected, catalog, log, cache, tasks, resp, created, acks,
                   metrics, streams, rwlocks, callers, mutex, compilations>>

CodecSpec == CodecInit /\ [][CallRoundTrip]_vars

---------------------------------------------------------------------------
(* Direct calls of execute_matching_functions, over catalogs whose         *)
(* functions succeed, trap in _start, have no module file, do not compile  *)
(* or do not instantiate.                                                  *)

FanOutFunctions ==
    { [name |-> f[1], http |-> h, nats |-> IF h THEN None ELSE Some(<<"a">>), code |-> f[2]] :
        f \in { <<"fA", "a.wasm">>, <<"fB", "b.wasm">>, <<"fC", "c.wasm">>,
                <<"fD", "d.wasm">>, <<"fI", "i.wasm">> },
        h \in BOOLEAN }
FanOutCatalogs ==
    UNION { { c \in [1..n -> FanOutFunctions] :
                \A i, j \in 1..n : i # j => c[i].name # c[j].name } : n \in 0..MaxFunctions }
\* an event every function matches and one only the HTTP triggers match
FanOutEvents ==
    { with_data(CloudEvent_new(event_type, "/api/webhook", Uuid_new_v4(0), Utc_now(0)), "o1") :
        event_type \in {ComNexus \o <<"a">>, ComNexus \o <<"z">>} }

\* FunctionExecutor::new over a configuration, the module cache empty
FanOutInit ==
    /\ catalog \in FanOutCatalogs
    /\ call = NoCall
    /\ connected = FALSE
    /\ streams = NoStreams
    /\ rwlocks = NoHolders
    /\ log = <<>>
    /\ cache = {}
    /\ tasks = <<>>
    /\ resp = [op |-> "none", code |-> 0, body |-> [status |-> "none"]]
    /\ created = <<>>
    /\ acks = 0
    /\ metrics = MetricsCollector_new
    /\ callers = <<>>
    /\ mutex = 0
    /\ compilations = <<>>

CallExecuteMatching == \E event \in FanOutEvents :
    LET run == execute_matching_functions(catalog, cache, event)
    IN  /\ call' = [fn |-> "execute_matching_functions", event |-> event, ok |-> TRUE,
                    results |-> run.results, attempted |-> run.attempted]
        /\ cache' = run.cache
        /\ UNCHANGED <<connected, catalog, log, tasks, resp, created, acks,
                       metrics, streams, rwlocks, callers, mutex, compilations>>

FanOutSpec == FanOutInit /\ [][CallExecuteMatching]_vars

---------------------------------------------------------------------------
(* Direct calls of the stream adapter: connect_with_retry, create_stream   *)
(* and publish on one NatsClient, against a server that has no stream, the *)
(* stream "events" as create_stream makes it, or one made by someone else. *)

MaxRetries == 3   \* max_retries asked of connect_with_retry

Audit == <<"a", "u", "d", "i", "t">>
StreamNames == {StreamName, Audit}
\* a stream "events" that another client created, kept in memory
ForeignConfig == [StreamConfig(StreamName) EXCEPT !.storage = "Memory"]
\* subjects published to: one of the stream, one of no stream
AdapterSubjects == { EventsDot \o <<"a">>, <<"x", ".", "a">> }
AdapterPayloads == {"p1", "p2"}

\* the NatsClient whose client field is set or not
ClientOf(conn) ==
    IF conn THEN NatsClient_connect(NatsClient_new, TRUE).self ELSE NatsClient_new

\* NatsClient::new, and the server as it is found
AdapterInit ==
    /\ connected = is_connected(NatsClient_new)
    /\ streams \in { NoStreams,
                      [n \in {StreamName} |-> StreamConfig(StreamName)],
                      [n \in {StreamName} |-> ForeignConfig] }
    /\ rwlocks = NoHolders
    /\ catalog = <<>>
    /\ log = <<>>
    /\ cache = {}
    /\ tasks = <<>>
    /\ resp = [op |-> "none", code |-> 0, body |-> [status |-> "none"]]
    /\ created = <<>>
    /\ acks = 0
    /\ metrics = MetricsCollector_new
    /\ call = NoCall
    /\ callers = <<>>
    /\ mutex = 0
    /\ compilations = <<>>

CallConnectWithRetry == \E max_retries \in 0..MaxRetries, up_from \in 1..(MaxRetries + 1) :
    LET tried == connect_with_retry(ClientOf(connected), 1, max_retries, up_from)
    IN  /\ connected' = is_connected(tried.self)
        /\ call' = [fn |-> "connect_with_retry", max_retries |-> max_retries,
                    up_from |-> up_from, was_connected |-> connected,
                    ok |-> tried.ok, attempts |-> tried.attempts]
        /\ UNCHANGED <<catalog, log, cache, tasks, resp, created, acks,
                       metrics, streams, rwlocks, callers, mutex, compilations>>

CallCreateStream == \E stream_name \in StreamNames, up \in BOOLEAN :
    LET made == create_stream(connected, streams, log, stream_name, up)
    IN  /\ streams' = made.streams
        /\ log' = made.log
        /\ call' = [fn |-> "create_stream", stream_name |-> stream_name, up |-> up,
                    existed |-> stream_name \in DOMAIN streams, ok |-> made.ok]
        /\ UNCHANGED <<connected, catalog, cache, tasks, resp, created, acks,
                       metrics, rwlocks, callers, mutex, compilations>>

\* NatsClient::publish: "Not connected to NATS" without jetstream; the server
\* acknowledges (ack) only what a stream of its own takes
CallPublish == \E subject \in AdapterSubjects, payload \in AdapterPayloads, ack \in BOOLEAN :
    LET sent == IF ~connected
                THEN [ok |-> FALSE, log |-> log]
                ELSE NatsClient_publish(log, subject, payload,
                                        ack /\ StreamName \in DOMAIN streams)
    IN  /\ Len(log) < MaxLog
        /\ log' = sent.log
        /\ call' = [fn |-> "publish", subject |-> subject, payload |-> payload,
                    ack |-> ack, ok |-> sent.ok]
        /\ UNCHANGED <<connected, catalog, cache, tasks, resp, created, acks,
                       metrics, streams, rwlocks, callers, mutex, compilations>>

AdapterNext ==
    \/ CallConnectWithRetry
    \/ CallCreateStream
    \/ CallPublish

AdapterSpec == AdapterInit /\ [][AdapterNext]_vars

---------------------------------------------------------------------------
(* Direct calls of the event log: EventStore over a stream that the        *)
(* publisher filled with envelopes and another client with payloads that   *)
(* are no envelopes.                                                       *)

\* envelopes published: the types a.b, a_b and a.c, two ids
StoreTypes == { ComNexus \o <<"a", ".", "b">>, ComNexus \o <<"a", "_", "b">>,
                ComNexus \o <<"a", ".", "c">> }
StoreEvents ==
    { CloudEvent_new(event_type, "/api/webhook", Uuid_new_v4(n), Utc_now(0)) :
        event_type \in StoreTypes, n \in 0..1 }
\* a JSON object that is no CloudEvent
NotAnEnvelope == [k \in {"data"} |-> "o1"]
\* the ids asked for: the two published and one never made
StoreIds == { Uuid_new_v4(n) : n \in 0..2 }
\* the type filters of list_events: none, the three types and one never published
StoreFilters == {None} \cup { Some(t) : t \in StoreTypes \cup {ComNexus \o <<"z">>} }

\* EventStore::new over a NatsClient that is connected or not; the stream
\* "events" exists
StoreInit ==
    /\ connected \in BOOLEAN
    /\ streams = create_stream(TRUE, NoStreams, <<>>, StreamName, TRUE).streams
    /\ rwlocks = NoHolders
    /\ catalog = <<>>
    /\ log = <<>>
    /\ cache = {}
    /\ tasks = <<>>
    /\ resp = [op |-> "none", code |-> 0, body |-> [status |-> "none"]]
    /\ created = <<>>
    /\ acks = 0
    /\ metrics = MetricsCollector_new
    /\ call = NoCall
    /\ callers = <<>>
    /\ mutex = 0
    /\ compilations = <<>>

StorePublish == \E event \in StoreEvents, ack \in BOOLEAN :
    LET sent == EventPublisher_publish(connected, log, event, ack)
    IN  /\ Len(log) < MaxLog
        /\ log' = sent.log
        /\ call' = [fn |-> "publish", event |-> event, ok |-> sent.ok]
        /\ UNCHANGED <<connected, catalog, cache, tasks, resp, created, acks,
                       metrics, streams, rwlocks, callers, mutex, compilations>>

\* another client of the server publishes to a subject of the stream
ForeignPublish == \E event_type \in StoreTypes :
    LET sent == NatsClient_publish(log, EventsDot \o replace(event_type, ".", "_"),
                                   NotAnEnvelope, TRUE)
    IN  /\ Len(log) < MaxLog
        /\ log' = sent.log
        /\ call' = [fn |-> "foreign", ok |-> sent.ok]
        /\ UNCHANGED <<connected, catalog, cache, tasks, resp, created, acks,
                       metrics, streams, rwlocks, callers, mutex, compilations>>

CallGetEventById == \E event_id \in StoreIds, up \in BOOLEAN :
    LET got == get_event_by_id(connected, log, event_id, up)
    IN  /\ call' = [fn |-> "get_event_by_id", event_id |-> event_id, up |-> up,
                    ok |-> got.ok, value |-> got.value]
        /\ UNCHANGED <<connected, catalog, log, cache, tasks, resp, created, acks,
                       metrics, streams, rwlocks, callers, mutex, compilations>>

CallListEvents == \E event_type \in StoreFilters, limit \in Limits, up \in BOOLEAN :
    LET got == list_events(connected, log, event_type, limit, up)
    IN  /\ call' = [fn |-> "list_events", event_type |-> event_type, limit |-> limit,
                    up |-> up, ok |-> got.ok, value |-> got.value]
        /\ UNCHANGED <<connected, catalog, log, cache, tasks, resp, created, acks,
                       metrics, streams, rwlocks, callers, mutex, compilations>>

StoreNext ==
    \/ StorePublish
    \/ ForeignPublish
    \/ CallGetEventById
    \/ CallListEvents

StoreSpec == StoreInit /\ [][StoreNext]_vars

---------------------------------------------------------------------------
(* The metrics collector called by concurrent tasks: increment_*,          *)
(* record_function_execution and get_metrics on one MetricsCollector.  The *)
(* steps of a caller are write().await or read().await, the statements     *)
(* under the guard (an addition is a load and a store), and the drop of    *)
(* the guard at the end of the function.                                   *)

\* concurrent callers explored
MaxMetricCalls == 4

\* the duration reported to record_function_execution
DurationMs == 2
MetricsOps == {"increment_events_published", "increment_events_replayed",
               "increment_events_failed", "record_function_execution", "get_metrics"}

\* MetricsCollector::new
MetricsInit ==
    /\ connected = FALSE
    /\ catalog = <<>>
    /\ log = <<>>
    /\ cache = {}
    /\ tasks = <<>>
    /\ resp = [op |-> "none", code |-> 0, body |-> [status |-> "none"]]
    /\ created = <<>>
    /\ acks = 0
    /\ metrics = MetricsCollector_new
    /\ call = NoCall
    /\ callers = <<>>
    /\ mutex = 0
    /\ compilations = <<>>
    /\ streams = NoStreams
    /\ rwlocks = NoHolders

\* a task calls one of the functions
MetricsEnter == \E op \in MetricsOps, success \in BOOLEAN :
    /\ Len(callers) < MaxMetricCalls
    /\ op # "record_function_execution" => success
    /\ callers' = Append(callers, [op |-> op, pc |-> "called", success |-> success,
                                   todo |-> Statements(op, DurationMs, success),
                                   local |-> None, snapshot |-> None])
    /\ UNCHANGED <<connected, catalog, log, cache, tasks, resp, created, acks,
                   metrics, streams, rwlocks, call, mutex, compilations>>

\* Mutant: the write guard is handed out while readers hold theirs.
WriteLock_beside_readers(t) ==
    /\ callers[t].pc = "called" /\ callers[t].op # "get_metrics"
    /\ rwlocks["metrics"].writer = 0
    /\ rwlocks' = [rwlocks EXCEPT !["metrics"].writer = t]
    /\ callers' = [callers EXCEPT ![t].pc = "locked"]
    /\ UNCHANGED <<connected, catalog, log, cache, tasks, resp, created, acks,
                   metrics, streams, call, mutex, compilations>>

\* self.data.write().await: granted when nobody holds a guard
WriteLock(t) ==
    /\ callers[t].pc = "called" /\ callers[t].op # "get_metrics"
    /\ rwlocks["metrics"].writer = 0 /\ rwlocks["metrics"].readers = {}
    /\ rwlocks' = [rwlocks EXCEPT !["metrics"].writer = t]
    /\ callers' = [callers EXCEPT ![t].pc = "locked"]
    /\ UNCHANGED <<connected, catalog, log, cache, tasks, resp, created, acks,
                   metrics, streams, call, mutex, compilations>>

\* data.field += by, first half: the field is read
Load(t) ==
    /\ callers[t].pc = "locked" /\ callers[t].todo # <<>> /\ callers[t].local = None
    /\ callers' = [callers EXCEPT ![t].local = Some(metrics[Head(callers[t].todo).field])]
    /\ UNCHANGED <<connected, catalog, log, cache, tasks, resp, created, acks,
                   metrics, streams, rwlocks, call, mutex, compilations>>

\* data.field += by, second half: the sum is written
Store(t) ==
    /\ callers[t].pc = "locked" /\ callers[t].local # None
    /\ metrics' = [metrics EXCEPT ![Head(callers[t].todo).field] =
                                       callers[t].local[1] + Head(callers[t].todo).by]
    /\ callers' = [callers EXCEPT ![t].local = None, ![t].todo = Tail(callers[t].todo)]
    /\ UNCHANGED <<connected, catalog, log, cache, tasks, resp, created, acks,
                   streams, rwlocks, call, mutex, compilations>>

\* the function returns and drops its write guard
WriteUnlock(t) ==
    /\ callers[t].pc = "locked" /\ callers[t].todo = <<>>
    /\ rwlocks' = [rwlocks EXCEPT !["metrics"].writer = 0]
    /\ callers' = [callers EXCEPT ![t].pc = "returned"]
    /\ UNCHANGED <<connected, catalog, log, cache, tasks, resp, created, acks,
                   metrics, streams, call, mutex, compilations>>

\* self.data.read().await: granted when no writer holds the guard
ReadLock(t) ==
    /\ callers[t].pc = "called" /\ callers[t].op = "get_metrics"
    /\ rwlocks["metrics"].writer = 0
    /\ rwlocks' = [rwlocks EXCEPT !["metrics"].readers = @ \cup {t}]
    /\ callers' = [callers EXCEPT ![t].pc = "reading"]
    /\ UNCHANGED <<connected, catalog, log, cache, tasks, resp, created, acks,
                   metrics, streams, call, mutex, compilations>>

\* the body of get_metrics and its return, which drops the read guard; a
\* panic unwinds through the guard and drops it as well
Snapshot(t) == \E overflow_checks \in BOOLEAN :
    LET got == MetricsCollector_get_metrics(metrics, overflow_checks)
    IN  /\ callers[t].pc = "reading"
        /\ call' = [fn |-> "get_metrics", data |-> metrics,
                    panicked |-> got.panicked, value |-> got.value]
        /\ callers' = [callers EXCEPT ![t].pc = IF got.panicked THEN "panicked"
                                                ELSE "returned",
                                      ![t].snapshot = got.value]
        /\ rwlocks' = [rwlocks EXCEPT !["metrics"].readers = @ \ {t}]
        /\ UNCHANGED <<connected, catalog, log, cache, tasks, resp, created, acks,
                       metrics, streams, mutex, compilations>>

WriteLocks == \E t \in DOMAIN callers : WriteLock(t)
Loads == \E t \in DOMAIN callers : Load(t)
Stores == \E t \in DOMAIN callers : Store(t)
WriteUnlocks == \E t \in DOMAIN callers : WriteUnlock(t)
ReadLocks == \E t \in DOMAIN callers : ReadLock(t)
Snapshots == \E t \in DOMAIN callers : Snapshot(t)

MetricsNext ==
    \/ MetricsEnter
    \/ WriteLocks
    \/ Loads
    \/ Stores
    \/ WriteUnlocks
    \/ ReadLocks
    \/ Snapshots

MetricsSpec == MetricsInit /\ [][MetricsNext]_vars

---------------------------------------------------------------------------
(* The locks of the server under concurrent operations.  A task runs on a  *)
(* worker thread of the runtime until it finishes or reaches an .await     *)
(* that is not ready; std::sync::Mutex::lock() blocks the thread it is     *)
(* called on.  An operation is the sequence of its lock acquisitions,      *)
(* guard drops and suspension points, in the order of the code.            *)

\* concurrent operations explored
MaxOps == 3
\* worker threads of the runtime
Workers == 2

LockOps == {"ingest", "replay", "execute", "list",
            "increment_events_published", "get_metrics"}

Instr(do, lock) == [do |-> do, lock |-> lock]
\* publish_to, get_event_by_id, list_events, get_event_count: the read guard
\* of the adapter lives across the request to the server
AdapterSteps == <<Instr("read", "nats_client"), Instr("await", "none"),
                  Instr("drop", "nats_client")>>
\* execute_function: fs::read, then WasmExecutor::execute
SandboxSteps == <<Instr("await", "none"), Instr("lock", "none"), Instr("lookup", "none"),
                  Instr("compile", "none"), Instr("insert", "none"),
                  Instr("await", "none")>>
\* what an operation does with the locks, from its call to its end; a fan-out
\* is the run of one function
ProgramOf(op) ==
    CASE op = "ingest" -> AdapterSteps \o SandboxSteps
      [] op = "replay" -> AdapterSteps \o AdapterSteps \o SandboxSteps
      [] op = "execute" -> AdapterSteps \o SandboxSteps
      [] op = "list" -> AdapterSteps \o AdapterSteps
      [] op = "increment_events_published" ->
            <<Instr("write", "metrics"), Instr("add", "none"), Instr("drop", "metrics")>>
      [] op = "get_metrics" ->
            <<Instr("read", "metrics"), Instr("snapshot", "none"), Instr("drop", "metrics")>>

\* the server runs: the write guard main took for connect_with_retry and
\* create_stream is dropped, no other writer of the adapter lock exists
LockInit ==
    /\ connected = TRUE
    /\ catalog = <<>>
    /\ log = <<>>
    /\ cache = {}
    /\ tasks = <<>>
    /\ resp = [op |-> "none", code |-> 0, body |-> [status |-> "none"]]
    /\ created = <<>>
    /\ acks = 0
    /\ metrics = MetricsCollector_new
    /\ call = NoCall
    /\ callers = <<>>
    /\ mutex = 0
    /\ compilations = <<>>
    /\ streams = NoStreams
    /\ rwlocks = NoHolders

OnThread == { t \in DOMAIN callers : callers[t].running }
Next_instr(t) == Head(callers[t].program)
At(t, do) == callers[t].running /\ callers[t].program # <<>> /\ Next_instr(t).do = do
\* the guard an .await on read() or write() asks for can be handed out
Granted(t) ==
    LET instr == Next_instr(t)
    IN  CASE instr.do = "read" -> rwlocks[instr.lock].writer = 0
          [] instr.do = "write" -> /\ rwlocks[instr.lock].writer = 0
                                   /\ rwlocks[instr.lock].readers = {}
          [] OTHER -> TRUE
\* the task goes on with the instructions left; it leaves its thread when it
\* suspends or has finished
Continue(t, left, suspends) ==
    [callers EXCEPT ![t].program = left, ![t].running = ~suspends /\ left # <<>>]

\* a request arrives or a task is spawned
OpEnter == \E op \in LockOps, module_bytes \in {"mA", "mC"} :
    /\ Len(callers) < MaxOps
    /\ op \in {"list", "increment_events_published", "get_metrics"} => module_bytes = "mA"
    /\ callers' = Append(callers, [op |-> op, module_bytes |-> module_bytes,
                                   program |-> ProgramOf(op), running |-> FALSE])
    /\ UNCHANGED <<connected, catalog, log, cache, tasks, resp, created, acks,
                   metrics, streams, rwlocks, call, mutex, compilations>>

\* the runtime polls a task that is ready on a free worker thread
Schedule(t) ==
    /\ ~callers[t].running /\ callers[t].program # <<>>
    /\ Cardinality(OnThread) < Workers
    /\ Granted(t)
    /\ callers' = [callers EXCEPT ![t].running = TRUE]
    /\ UNCHANGED <<connected, catalog, log, cache, tasks, resp, created, acks,
                   metrics, streams, rwlocks, call, mutex, compilations>>

\* lock.read().await: the guard, or the task suspends until it is free
AcquireRead(t) ==
    /\ At(t, "read")
    /\ IF Granted(t)
       THEN /\ rwlocks' = [rwlocks EXCEPT ![Next_instr(t).lock].readers = @ \cup {t}]
            /\ callers' = Continue(t, Tail(callers[t].program), FALSE)
       ELSE /\ callers' = Continue(t, callers[t].program, TRUE)
            /\ UNCHANGED rwlocks
    /\ UNCHANGED <<connected, catalog, log, cache, tasks, resp, created, acks,
                   metrics, streams, call, mutex, compilations>>

\* lock.write().await
AcquireWrite(t) ==
    /\ At(t, "write")
    /\ IF Granted(t)
       THEN /\ rwlocks' = [rwlocks EXCEPT ![Next_instr(t).lock].writer = t]
            /\ callers' = Continue(t, Tail(callers[t].program), FALSE)
       ELSE /\ callers' = Continue(t, callers[t].program, TRUE)
            /\ UNCHANGED rwlocks
    /\ UNCHANGED <<connected, catalog, log, cache, tasks, resp, created, acks,
                   metrics, streams, call, mutex, compilations>>

\* the function that took the guard returns
DropGuard(t) ==
    /\ At(t, "drop")
    /\ rwlocks' = [rwlocks EXCEPT ![Next_instr(t).lock] =
                      IF @.writer = t THEN [@ EXCEPT !.writer = 0]
                      ELSE [@ EXCEPT !.readers = @ \ {t}]]
    /\ callers' = Continue(t, Tail(callers[t].program), FALSE)
    /\ UNCHANGED <<connected, catalog, log, cache, tasks, resp, created, acks,
                   metrics, streams, call, mutex, compilations>>

\* an .await on the server, the file system or the module: the task suspends
Await(t) ==
    /\ At(t, "await")
    /\ callers' = Continue(t, Tail(callers[t].program), TRUE)
    /\ UNCHANGED <<connected, catalog, log, cache, tasks, resp, created, acks,
                   metrics, streams, rwlocks, call, mutex, compilations>>

\* data.events_published += 1 under the write guard
Add(t) ==
    /\ At(t, "add")
    /\ metrics' = [metrics EXCEPT !.events_published = @ + 1]
    /\ callers' = Continue(t, Tail(callers[t].program), FALSE)
    /\ UNCHANGED <<connected, catalog, log, cache, tasks, resp, created, acks,
                   streams, rwlocks, call, mutex, compilations>>

\* the body of get_metrics under the read guard
ReadCounters(t) == \E overflow_checks \in BOOLEAN :
    LET got == MetricsCollector_get_metrics(metrics, overflow_checks)
    IN  /\ At(t, "snapshot")
        /\ call' = [fn |-> "get_metrics", data |-> metrics,
                    panicked |-> got.panicked, value |-> got.value]
        /\ callers' = Continue(t, Tail(callers[t].program), FALSE)
        /\ UNCHANGED <<connected, catalog, log, cache, tasks, resp, created, acks,
                       metrics, streams, rwlocks, mutex, compilations>>

\* self.module_cache.lock().unwrap(): the thread blocks while the mutex is held
MutexLock(t) ==
    /\ At(t, "lock")
    /\ mutex = 0
    /\ mutex' = t
    /\ callers' = Continue(t, Tail(callers[t].program), FALSE)
    /\ UNCHANGED <<connected, catalog, log, cache, tasks, resp, created, acks,
                   metrics, streams, rwlocks, call, compilations>>

\* cache.get(cache_key): a hit returns the module and drops the guard
CacheLookup(t) ==
    /\ At(t, "lookup")
    /\ IF CacheKey(callers[t].module_bytes) \in cache
       THEN /\ callers' = Continue(t, Tail(Tail(Tail(callers[t].program))), FALSE)
            /\ mutex' = 0
       ELSE /\ callers' = Continue(t, Tail(callers[t].program), FALSE)
            /\ UNCHANGED mutex
    /\ UNCHANGED <<connected, catalog, log, cache, tasks, resp, created, acks,
                   metrics, streams, rwlocks, call, compilations>>

\* Module::new: an error returns from execute and drops the guard
CacheCompile(t) ==
    /\ At(t, "compile")
    /\ compilations' = Append(compilations, CacheKey(callers[t].module_bytes))
    /\ IF Compiles(callers[t].module_bytes)
       THEN /\ callers' = Continue(t, Tail(callers[t].program), FALSE)
            /\ UNCHANGED mutex
       ELSE /\ callers' = Continue(t, <<>>, FALSE)
            /\ mutex' = 0
    /\ UNCHANGED <<connected, catalog, log, cache, tasks, resp, created, acks,
                   metrics, streams, rwlocks, call>>

\* Mutant: the guard of the cache lives to the end of execute.
CacheInsert_keeps_guard(t) ==
    /\ At(t, "insert")
    /\ cache' = cache \cup {CacheKey(callers[t].module_bytes)}
    /\ callers' = Continue(t, Tail(callers[t].program), FALSE)
    /\ UNCHANGED <<connected, catalog, log, tasks, resp, created, acks,
                   metrics, streams, rwlocks, call, mutex, compilations>>

\* cache.insert, and the return that drops the guard
CacheInsert(t) ==
    /\ At(t, "insert")
    /\ cache' = cache \cup {CacheKey(callers[t].module_bytes)}
    /\ mutex' = 0
    /\ callers' = Continue(t, Tail(callers[t].program), FALSE)
    /\ UNCHANGED <<connected, catalog, log, tasks, resp, created, acks,
                   metrics, streams, rwlocks, call, compilations>>

Schedules == \E t \in DOMAIN callers : Schedule(t)
AcquireReads == \E t \in DOMAIN callers : AcquireRead(t)
AcquireWrites == \E t \in DOMAIN callers : AcquireWrite(t)
DropGuards == \E t \in DOMAIN callers : DropGuard(t)
Awaits == \E t \in DOMAIN callers : Await(t)
Adds == \E t \in DOMAIN callers : Add(t)
ReadsCounters == \E t \in DOMAIN callers : ReadCounters(t)
MutexLocks == \E t \in DOMAIN callers : MutexLock(t)
CacheLookups == \E t \in DOMAIN callers : CacheLookup(t)
CacheCompiles == \E t \in DOMAIN callers : CacheCompile(t)
CacheInserts == \E t \in DOMAIN callers : CacheInsert(t)

\* the steps of the tasks that are in
Progress ==
    \/ Schedules
    \/ AcquireReads
    \/ AcquireWrites
    \/ DropGuards
    \/ Awaits
    \/ Adds
    \/ ReadsCounters
    \/ MutexLocks
    \/ CacheLookups
    \/ CacheCompiles
    \/ CacheInserts

LockNext ==
    \/ OpEnter
    \/ Progress

LockSpec == LockInit /\ [][LockNext]_vars

---------------------------------------------------------------------------
(* Properties *)

IdOf(i) == log[i].payload["id"]
RecordsWithId(id) == { i \in DOMAIN log : IdOf(i) = id }
IdsInLog == { IdOf(i) : i \in DOMAIN log }
\* the record an id was first stored in
FirstRecord(id) == CHOOSE i \in RecordsWithId(id) : \A j \in RecordsWithId(id) : i <= j
\* the attributes of a stored envelope that replay has to preserve
SameAttribute(p, q, k) ==
    /\ (k \in DOMAIN p) = (k \in DOMAIN q)
    /\ k \in DOMAIN p => p[k] = q[k]
\* a handler answered ok with this status in its body
Answered(op, status) == resp.op = op /\ resp.code = 200 /\ resp.body.status = status

\* C1: a replay that publishes appends one record whose envelope has the id,
\* time, type and data of the record stored first under the requested id, and
\* makes no new envelope.
C1ReplayPreservesIdentity ==
    [][ (acks' = acks + 1 /\ resp'.op = "replay") =>
          /\ resp'.body.event_id \in IdsInLog
          /\ Len(log') = Len(log) + 1
          /\ SubSeq(log', 1, Len(log)) = log
          /\ \A k \in {"id", "time", "type", "data"} :
                SameAttribute(log'[Len(log')].payload,
                              log[FirstRecord(resp'.body.event_id)].payload, k)
          /\ created' = created ]_vars

\* C1 witness: a replay was answered "replayed" and the log holds the
\* original record and its copy.
C1Witness ==
    /\ Answered("replay", "replayed")
    /\ Cardinality(RecordsWithId(resp.body.event_id)) >= 2

\* C2 as claimed: no two stream records carry envelopes with the same id.
C2IdsUniqueInLog ==
    \A i, j \in DOMAIN log : i # j => IdOf(i) # IdOf(j)

\* C2 amended: every ingest stores its envelope under an id of its own, and
\* two records carry the same id only when they carry the same envelope on the
\* same subject (a record and its replay copies).
C2SameIdSameEnvelope ==
    /\ \A i, j \in DOMAIN log :
          IdOf(i) = IdOf(j) =>
              log[i].payload = log[j].payload /\ log[i].subject = log[j].subject
    /\ \A m, n \in DOMAIN created :
          m # n => created[m].event.id # created[n].event.id
    /\ IdsInLog = { created[n].event.id : n \in DOMAIN created }

\* C2 witness: two records with the same id next to a record with another id.
C2Witness ==
    /\ \E i, j \in DOMAIN log : i # j /\ IdOf(i) = IdOf(j)
    /\ Cardinality(IdsInLog) >= 2

\* C3: for every ingested envelope whose first record lies in the scan
\* window, get_by_id returns the envelope as it was made at ingest, whatever
\* was replayed since; and a GET /events/:id answered 200 carries that envelope.
C3GetReturnsOriginal ==
    /\ \A n \in DOMAIN created :
          LET e == created[n].event
          IN  (connected /\ FirstRecord(e.id) <= ScanWindow) =>
                  get_event_by_id(connected, log, e.id, TRUE)
                      = [ok |-> TRUE, value |-> Some(e)]
    /\ Answered("get", "found") =>
          \E n \in DOMAIN created :
              /\ created[n].event.id = resp.body.event_id
              /\ resp.body.event = created[n].event

\* C3 witness: GET /events/:id answered 200 for an id that was replayed.
C3Witness ==
    /\ Answered("get", "found")
    /\ Cardinality(RecordsWithId(resp.body.event_id)) >= 2

\* C4 as claimed: every envelope that was published and is retained is found
\* by get_by_id, and replay never answers not_found for it.
C4EveryStoredEventReplayable ==
    /\ connected =>
          \A id \in IdsInLog : get_event_by_id(connected, log, id, TRUE).value # None
    /\ Answered("replay", "not_found") => resp.body.event_id \notin IdsInLog

\* C5: the webhook answers "published" only for an envelope the log holds,
\* it answers in the step that publishes, with the spawned task not yet
\* started, and no step of a task changes the answer.
C5RespondsAfterPublishOnly ==
    /\ [](Answered("webhook", "published") => resp.body.event_id \in IdsInLog)
    /\ [][ /\ (resp'.op = "webhook" /\ resp' # resp) =>
                 ((resp'.code = 200) = (acks' = acks + 1))
           /\ (resp'.op = "webhook" /\ acks' = acks + 1) =>
                 /\ Answered("webhook", "published")'
                 /\ Len(tasks') = Len(tasks) + 1
                 /\ tasks'[Len(tasks')].pc = "spawned"
                 /\ tasks'[Len(tasks')].event.id = resp'.body.event_id
           /\ (Len(tasks') = Len(tasks) /\ tasks' # tasks) => resp' = resp ]_vars

\* C5 witness: the answer "published" stands while the task of that envelope
\* has finished with a matched function that failed.
C5Witness ==
    /\ Answered("webhook", "published")
    /\ \E t \in DOMAIN tasks :
          /\ tasks[t].event.id = resp.body.event_id
          /\ tasks[t].pc = "done"
          /\ Len(tasks[t].results) < Len(tasks[t].invoked)

\* C6: a step that ends with an error answer of ingest or replay appends no
\* record and spawns no task; a task is spawned only in a step that appends a
\* record; an ingest or replay that found its envelope and appends nothing
\* answers with an error.
C6PublishFailureSurfaces ==
    [][ /\ (resp'.op \in {"webhook", "events", "replay"} /\ resp'.code # 200) =>
              (log' = log /\ Len(tasks') = Len(tasks) /\ acks' = acks)
        /\ Len(tasks') # Len(tasks) =>
              (Len(tasks') = Len(tasks) + 1 /\ Len(log') = Len(log) + 1)
        /\ (resp' # resp /\ resp'.op \in {"webhook", "events"} /\ log' = log) =>
              resp'.code = 500
        /\ (resp' # resp /\ resp'.op = "replay" /\ log' = log) =>
              (resp'.code = 500 \/ resp'.body.status = "not_found") ]_vars

\* C6 witness: a connected server answered a webhook with 500 after the log
\* had taken earlier records (the backend refused this publish).
C6Witness ==
    /\ connected
    /\ resp.op = "webhook" /\ resp.code = 500
    /\ log # <<>>

TaskIds == 1..MaxTasks
DispatchOf(task) == find_matching_functions(catalog, task.event.event_type)
InvokedNames(task) == [i \in 1..Len(task.invoked) |-> task.invoked[i].function]
IsTask(t, origin) == t \in DOMAIN tasks /\ tasks[t].origin = origin
\* the task ran execute_function for exactly the names dispatch gives, once each
RanDispatch(t) ==
    /\ t \in DOMAIN tasks
    /\ tasks[t].pc = "done"
    /\ InvokedNames(tasks[t]) = DispatchOf(tasks[t])
\* so far the task called execute_function for the first names of dispatch, in
\* order, each once, every time with the serialized envelope given as input
RunsDispatchOn(t, payload) ==
    LET names == DispatchOf(tasks[t])
    IN  /\ Cardinality({ names[i] : i \in DOMAIN names }) = Len(names)
        /\ Len(tasks[t].invoked) <= Len(names)
        /\ InvokedNames(tasks[t]) = SubSeq(names, 1, Len(tasks[t].invoked))
        /\ \A i \in DOMAIN tasks[t].invoked : tasks[t].invoked[i].input = payload
        /\ tasks[t].pc = "done" => InvokedNames(tasks[t]) = names

\* C7: the task spawned by a webhook ingest calls execute_function once for
\* every function of dispatch(type), in catalog order, with the ingested
\* envelope as input, for no other function, and under fair scheduling it
\* gets through all of them.
C7IngestFanOut ==
    /\ [](\A t \in TaskIds :
            IsTask(t, "webhook") =>
                /\ \E n \in DOMAIN created :
                      /\ created[n].via = "webhook"
                      /\ created[n].event = tasks[t].event
                /\ RunsDispatchOn(t, to_json_bytes(tasks[t].event))
                /\ to_json_bytes(tasks[t].event)
                     = log[FirstRecord(tasks[t].event.id)].payload)
    /\ \A t \in TaskIds : IsTask(t, "webhook") ~> RanDispatch(t)

\* C7 witness: the task of a webhook ingest finished after three invocations,
\* one of which failed.
C7Witness ==
    \E t \in DOMAIN tasks :
        /\ tasks[t].origin = "webhook"
        /\ tasks[t].pc = "done"
        /\ Len(tasks[t].invoked) = 3
        /\ Len(tasks[t].results) = 2

\* C8: a replay that publishes spawns one task, which calls execute_function
\* once for every function of dispatch(type of the stored envelope) with the
\* stored envelope as input and under fair scheduling gets through all of
\* them; so an envelope ingested by the webhook has one task per record
\* stored under its id (one for the ingest, one more for each replay).
C8ReplayFanOut ==
    /\ [](\A t \in TaskIds :
            IsTask(t, "replay") =>
                RunsDispatchOn(t, log[FirstRecord(tasks[t].event.id)].payload))
    /\ [](\A n \in DOMAIN created :
            LET id == created[n].event.id
                runs == { t \in DOMAIN tasks : tasks[t].event.id = id }
                replays == { t \in runs : tasks[t].origin = "replay" }
            IN  /\ Cardinality(replays) = Cardinality(RecordsWithId(id)) - 1
                /\ created[n].via = "webhook" =>
                      Cardinality(runs) = Cardinality(RecordsWithId(id)))
    /\ \A t \in TaskIds : IsTask(t, "replay") ~> RanDispatch(t)

\* C8 witness: the task of a webhook ingest and the task of a replay of the
\* same envelope both finished, each with at least two invocations.
C8Witness ==
    \E t, u \in DOMAIN tasks :
        /\ tasks[t].origin = "webhook" /\ tasks[u].origin = "replay"
        /\ tasks[t].event.id = tasks[u].event.id
        /\ tasks[t].pc = "done" /\ tasks[u].pc = "done"
        /\ Len(tasks[t].invoked) >= 2
        /\ tasks[u].invoked = tasks[t].invoked

\* C9 as claimed: the answer of POST /execute/:id has one entry for every
\* function dispatch gives for the envelope's type, and the entry of a function
\* whose invocation failed is marked as a failure.
C9EveryMatchedFunctionReported ==
    Answered("execute", "executed") =>
        LET event == from_slice(log[FirstRecord(resp.body.event_id)].payload)[1]
            names == find_matching_functions(catalog, event.event_type)
            entries == resp.body.functions_executed
        IN  /\ Len(entries) = Len(names)
            /\ \A i \in DOMAIN entries :
                  /\ entries[i].function_name = names[i]
                  /\ (entries[i].status = "success") =
                        execute_function(catalog, cache, names[i], event).ok

NamesOf(functions) == [i \in DOMAIN functions |-> functions[i].name]
Dispatched == call.fn = "find_matching_functions"

\* C11: dispatch(T) holds a function exactly when it has an HTTP trigger, or a
\* stream trigger whose subject is a substring of T or has T as a substring.
C11DispatchMatchesTriggers ==
    Dispatched =>
        \A i \in DOMAIN catalog :
            (catalog[i].name \in Range(call.result))
            <=> \/ catalog[i].http
                \/ /\ catalog[i].nats # None
                   /\ \/ contains(call.event_type, catalog[i].nats[1])
                      \/ contains(catalog[i].nats[1], call.event_type)

\* C11 witness: dispatch ran on a catalog where one function has both triggers
\* and a subject unrelated to the type, one matches only because its subject
\* contains the type, and the type asked for is not empty.
C11Witness ==
    /\ Dispatched
    /\ call.event_type # <<>>
    /\ \E i, j \in DOMAIN catalog :
          /\ catalog[i].http /\ catalog[i].nats # None
          /\ ~contains(call.event_type, catalog[i].nats[1])
          /\ ~contains(catalog[i].nats[1], call.event_type)
          /\ catalog[i].name \in Range(call.result)
          /\ ~catalog[j].http
          /\ ~contains(call.event_type, catalog[j].nats[1])
          /\ contains(catalog[j].nats[1], call.event_type)
          /\ catalog[j].name \in Range(call.result)

\* C12: dispatch(T) lists the matched names in declaration order, each once:
\* it is the catalog's name list with the unmatched names left out; for the
\* catalog [fA on stream "user", fB on HTTP] and com.nexus.user.created it is
\* [fA, fB].
C12DispatchInDeclarationOrder ==
    Dispatched =>
        /\ call.result = SelectSeq(NamesOf(catalog), LAMBDA n : n \in Range(call.result))
        /\ Cardinality(Range(call.result)) = Len(call.result)
        /\ ( /\ catalog = << [name |-> "fA", http |-> FALSE, nats |-> Some(User), code |-> "a.wasm"],
                             [name |-> "fB", http |-> TRUE, nats |-> None, code |-> "a.wasm"] >>
             /\ call.event_type = UserCreated )
            => call.result = <<"fA", "fB">>

\* C12 witness: the example of the specification was dispatched.
C12Witness ==
    /\ Dispatched
    /\ call.event_type = UserCreated
    /\ NamesOf(catalog) = <<"fA", "fB">>
    /\ catalog[1].nats = Some(User) /\ ~catalog[1].http
    /\ catalog[2].http /\ catalog[2].nats = None
    /\ Len(call.result) = 2

\* what dispatch returned to a task: the names run so far and those queued
DispatchedTo(task) == InvokedNames(task) \o task.queue

CompilationsOf(key) == Cardinality({ i \in DOMAIN compilations : compilations[i] = key })

\* C14: for bytes m that compile, a call execute(m, i) that finds no entry of
\* m compiles once and adds exactly one entry; execute(m, j) right after
\* execute(m, i) compiles nothing and leaves the cache as it is; both
\* instantiate the module, whatever the inputs are.
C14CacheIdempotence ==
    [][ ( /\ call'.fn = "execute" /\ Compiles(call'.module_bytes)
          /\ <<call, cache, compilations>>' # <<call, cache, compilations>> )
        => LET key == <<"module", call'.module_bytes>>
           IN  /\ key \notin cache
                    => /\ Cardinality(cache') = Cardinality(cache) + 1
                       /\ cache' = cache \cup {key}
                       /\ compilations' = Append(compilations, key)
               /\ key \in cache
                    => /\ cache' = cache
                       /\ compilations' = compilations
               /\ ( call.fn = "execute" /\ call.module_bytes = call'.module_bytes )
                    => /\ cache' = cache
                       /\ compilations' = compilations
               /\ Instantiates(call'.module_bytes) => call'.instantiated ]_vars

\* C14 witness: execute(m, j) was called right after execute(m, i) with
\* another input: the second call compiled nothing and m is cached once.
C14Witness ==
    /\ call.fn = "execute" /\ call.ok /\ ~call.compiled /\ call.instantiated
    /\ Len(call.input["type"]) > Len(ComNexus) + 1
    /\ compilations = << <<"module", call.module_bytes>> >>
    /\ cache = { <<"module", call.module_bytes>> }

\* C16: execute on a module that compiled and instantiated returns Ok with the
\* output of status "executed" and the input's length, whether _start
\* returned, trapped or is not exported.
C16StartFailureNotFatal ==
    ( /\ call.fn = "execute"
      /\ Compiles(call.module_bytes) /\ Instantiates(call.module_bytes) )
    => /\ call.ok
       /\ call.output = Some([status |-> "executed", input_size |-> ByteLen(call.input)])
       /\ call.export = StartOf(call.module_bytes)
       /\ call.export \in {"ok", "trap", "absent"}

\* C16 witness: execute returned its output for a module whose _start trapped.
C16Witness ==
    /\ call.fn = "execute" /\ call.export = "trap"
    /\ call.ok /\ call.output # None /\ call.instantiated

\* C17: execute_func returns an error and no output when the module does not
\* export the name or when the call of the export fails; it returns the output
\* with the function name and the input's length only when the export ran to
\* its end.
C17NamedFailureIsFatal ==
    call.fn = "execute_func" =>
        LET func == ExportOf(call.module_bytes, call.func_name)
        IN  /\ func \in {"absent", "trap"} => ~call.ok /\ call.output = None
            /\ call.ok => /\ func = "ok"
                          /\ call.export = "ok"
                          /\ call.instantiated
                          /\ call.output = Some([status |-> "executed",
                                                  function |-> call.func_name,
                                                  input_size |-> ByteLen(call.input)])
            /\ ~call.ok => call.output = None

\* C17 witness: execute_func compiled and instantiated a module and failed
\* because the named export trapped.
C17Witness ==
    /\ call.fn = "execute_func" /\ call.export = "trap"
    /\ call.instantiated /\ ~call.ok /\ call.output = None

InCriticalSection(t) == callers[t].pc \in {"lookup", "compile", "insert"}
PastLookup(t) == callers[t].pc \in {"compile", "insert", "instantiate", "returned"}

\* C15: with concurrent callers of execute and no clear_cache, bytes that
\* compile are compiled at most once: one caller at a time is between lock()
\* and the return of get_or_compile_module, at most one caller of a module
\* misses the cache, every other one gets a hit, and once a caller is past
\* get_or_compile_module the cache holds the entry of its module.
C15CompiledAtMostOnce ==
    /\ \A t, u \in DOMAIN callers :
          (InCriticalSection(t) /\ InCriticalSection(u)) => t = u
    /\ \A t \in DOMAIN callers : InCriticalSection(t) => mutex = t
    /\ \A t \in DOMAIN callers :
          Compiles(callers[t].module_bytes) =>
            /\ CompilationsOf(CacheKey(callers[t].module_bytes)) <= 1
            /\ \A u \in DOMAIN callers :
                  ( /\ u # t /\ callers[u].module_bytes = callers[t].module_bytes
                    /\ PastLookup(t) /\ PastLookup(u) )
                  => callers[t].hit \/ callers[u].hit
            /\ callers[t].pc \in {"instantiate", "returned"}
                  => CacheKey(callers[t].module_bytes) \in cache
    /\ cache \subseteq { CacheKey(m) : m \in CallerModules }

\* C15 witness: of two callers with the same bytes the one that entered later
\* took the mutex first and compiled; the other blocked, then got a hit.
C15Witness ==
    \E t, u \in DOMAIN callers :
        /\ u < t
        /\ callers[t].module_bytes = callers[u].module_bytes
        /\ callers[t].pc = "returned" /\ callers[t].ok /\ ~callers[t].hit
        /\ callers[u].pc = "returned" /\ callers[u].ok /\ callers[u].hit
        /\ CompilationsOf(CacheKey(callers[t].module_bytes)) = 1

\* sandbox executor invocations made by the fan-out tasks
RECURSIVE InvokedBy(_)
InvokedBy(ts) == IF ts = <<>> THEN 0 ELSE Len(Head(ts).invoked) + InvokedBy(Tail(ts))

\* C18: the counters equal the counts of the pipeline's events: one
\* events_published per successful ingest publish, one events_replayed per
\* successful replay, events_failed counts the failed publishes (so it is not
\* zero right after an ingest answered with a publish failure), and
\* functions_executed counts the function invocations, each as succeeded or
\* failed.
C18CountersMatchPipeline ==
    /\ metrics.events_published = Len(created)
    /\ metrics.events_replayed = acks - Len(created)
    /\ (resp.op \in {"webhook", "events"} /\ resp.code = 500) => metrics.events_failed > 0
    /\ metrics.functions_executed >= InvokedBy(tasks)
    /\ metrics.functions_executed = metrics.functions_succeeded + metrics.functions_failed

\* C19: every record of the stream is stored under "events." followed by the
\* type of its envelope with each '.' replaced by '_', and its payload is the
\* serialization of an envelope handed to the publisher.
C19SubjectIsEscapedType ==
    \A i \in DOMAIN log :
        /\ log[i].subject = EventsDot \o replace(log[i].payload["type"], ".", "_")
        /\ \A k \in DOMAIN log[i].subject : k > Len(EventsDot) => log[i].subject[k] # "."
        /\ \E k \in DOMAIN created : log[i].payload = to_json_bytes(created[k].event)

\* C19 witness: the stream holds a record of type com.nexus.a.b under
\* events.com_nexus_a_b, and a replayed copy of it.
C19Witness ==
    \E i, j \in DOMAIN log :
        /\ i < j
        /\ log[i].payload = log[j].payload
        /\ log[i].payload["type"] = ComNexus \o <<"a", ".", "b">>
        /\ log[j].subject = EventsDot \o <<"c", "o", "m", "_", "n", "e", "x", "u", "s", "_",
                                            "a", "_", "b">>

\* C20: a new adapter is not connected.  While the adapter is not connected
\* every handler that publishes or reads the log answers with an error and
\* the log stays as it is; and on every log the stream can hold, publish,
\* get_by_id, list and count of an adapter without connection fail and append
\* nothing, even when the server would answer.
C20NotConnectedFails ==
    /\ [](~is_connected(NatsClient_new))
    /\ [](\A k \in DOMAIN created :
            LET published == EventPublisher_publish(FALSE, log, created[k].event, TRUE)
            IN  ~published.ok /\ published.log = log)
    /\ [](\A event_id \in AskIds : ~get_event_by_id(FALSE, log, event_id, TRUE).ok)
    /\ [](\A event_type \in ListTypes, limit \in Limits :
            ~list_events(FALSE, log, event_type, limit, TRUE).ok)
    /\ [](~get_event_count(FALSE, log, TRUE).ok)
    /\ [][ ~connected =>
             /\ log' = log /\ tasks' = tasks /\ acks' = acks
             /\ resp'.op # "none" /\ resp'.code = 500 ]_vars

\* C20 witness: the server runs without connection and answered an ingest
\* with an error; the log is empty.
C20Witness ==
    /\ ~connected
    /\ resp.op = "webhook" /\ resp.code = 500
    /\ log = <<>>

---------------------------------------------------------------------------
(* Stream adapter, called directly *)

\* C21: a publish returns success only after the server's acknowledgment, and
\* then its record is the one appended to the log; a publish that left the log
\* as it was returned a failure.
C21PublishOkIffAppended ==
    [][ call'.fn = "publish" =>
          /\ call'.ok => /\ call'.ack
                          /\ Len(log') = Len(log) + 1
                          /\ SubSeq(log', 1, Len(log)) = log
                          /\ log'[Len(log')].subject = call'.subject
                          /\ log'[Len(log')].payload = call'.payload
          /\ log' = log => ~call'.ok ]_vars

C21Witness ==
    /\ call.fn = "publish"
    /\ call.ok
    /\ Len(log) >= 2
    /\ log[Len(log)].payload = call.payload

\* C22: create_stream on a connected adapter for a stream that exists leaves
\* the streams, their configuration and the records as they are and returns
\* success when the server answers; a successful call leaves the stream in
\* place, so that a second call finds it and changes nothing.
C22CreateStreamIdempotent ==
    [][ call'.fn = "create_stream" =>
          /\ (connected /\ call'.stream_name \in DOMAIN streams) =>
                 /\ streams' = streams
                 /\ log' = log
                 /\ call'.up => call'.ok
          /\ call'.ok => call'.stream_name \in DOMAIN streams'
          /\ log' = log ]_vars

C22Witness ==
    /\ call.fn = "create_stream"
    /\ call.stream_name = StreamName
    /\ call.existed
    /\ call.ok
    /\ streams[StreamName] = ForeignConfig
    /\ log # <<>>

\* C28: connect_with_retry(url, N) makes at most N attempts; it stops at the
\* first attempt that succeeds and returns success with the adapter connected;
\* after N failed attempts it returns an error and the adapter is as it was;
\* with N = 0 it makes no attempt and returns an error.
C28ConnectWithRetryBounded ==
    call.fn = "connect_with_retry" =>
        /\ call.attempts <= call.max_retries
        /\ call.ok => /\ call.attempts = call.up_from
                       /\ connected
        /\ ~call.ok => /\ call.attempts = call.max_retries
                        /\ call.up_from > call.max_retries
                        /\ connected = call.was_connected
        /\ call.max_retries = 0 => (~call.ok /\ call.attempts = 0)

C28Witness ==
    /\ call.fn = "connect_with_retry"
    /\ call.ok
    /\ ~call.was_connected
    /\ call.attempts >= 2
    /\ call.attempts < call.max_retries

---------------------------------------------------------------------------
(* Event log, called directly *)

\* the envelope a stream record carries, None when its payload is none
EnvelopeOf(r) == from_slice(r.payload)
\* the envelopes of a sequence of records that all carry one
EnvelopesOf(records) == [i \in DOMAIN records |-> EnvelopeOf(records[i])[1]]

\* C23: get_by_id answers with the envelope of the first record, in stream
\* order, among the first ScanWindow (in the source 1000) records whose payload
\* deserializes to an envelope of the id asked for, and with None when the
\* window holds no such record; records that carry no envelope are passed over.
C23GetByIdFirstInWindow ==
    (call.fn = "get_event_by_id" /\ call.ok) =>
        LET window == Take(log, ScanWindow)
            hits == { i \in DOMAIN window :
                        /\ EnvelopeOf(window[i]) # None
                        /\ EnvelopeOf(window[i])[1].id = call.event_id }
        IN  IF hits = {}
            THEN call.value = None
            ELSE \E i \in hits : /\ \A j \in hits : i <= j
                                  /\ call.value = EnvelopeOf(window[i])

C23Witness ==
    /\ call.fn = "get_event_by_id"
    /\ call.ok
    /\ call.value # None
    /\ Len(log) >= 2
    /\ EnvelopeOf(log[1]) = None
    /\ call.value = EnvelopeOf(log[2])

C25ListReturnsExactlyTheType ==
    (/\ call.fn = "list_events"
     /\ call.ok
     /\ call.event_type # None
     /\ \A i \in DOMAIN log : EnvelopeOf(log[i]) # None) =>
        LET OfType(r) == EnvelopeOf(r)[1].event_type = call.event_type[1]
            most == IF call.limit < ScanWindow THEN call.limit ELSE ScanWindow
        IN  call.value = EnvelopesOf(Take(SelectSeq(log, OfType), most))

---------------------------------------------------------------------------
(* Order of the executions of one fan-out *)

\* the place of a function in the catalog
Declared(name) == CHOOSE i \in DOMAIN catalog : catalog[i].name = name

\* C26 as claimed: the functions matched by one event run concurrently, so
\* while two of them are still to complete in a fan-out, the one declared
\* later can complete before the one declared earlier.
C26LaterFunctionCanCompleteFirst ==
    \A t \in DOMAIN tasks :
        (tasks[t].pc = "running" /\ Len(tasks[t].queue) >= 2) =>
            ENABLED (/\ Next
                     /\ Len(tasks'[t].invoked) = Len(tasks[t].invoked) + 1
                     /\ tasks'[t].invoked[Len(tasks'[t].invoked)].function
                          = tasks[t].queue[2])

\* C26: the functions of one fan-out complete one at a time in the order of
\* their declaration: what a fan-out has completed is in catalog order, and
\* every function it has still to run is declared after all it completed.
C26FanOutInDeclarationOrder ==
    \A t \in DOMAIN tasks :
        LET completed == InvokedNames(tasks[t])
        IN  /\ \A i, j \in DOMAIN completed :
                  i < j => Declared(completed[i]) < Declared(completed[j])
            /\ \A i \in DOMAIN completed, k \in DOMAIN tasks[t].queue :
                  Declared(completed[i]) < Declared(tasks[t].queue[k])

\* C26 witness: two fan-outs of one event are under way at once, each between
\* two of its functions.
C26Witness ==
    \E t, u \in DOMAIN tasks :
        /\ t # u
        /\ tasks[t].event.id = tasks[u].event.id
        /\ tasks[t].pc = "running" /\ tasks[u].pc = "running"
        /\ tasks[t].invoked # <<>> /\ tasks[u].invoked # <<>>
        /\ Len(tasks[t].invoked) < Len(tasks[u].invoked)

---------------------------------------------------------------------------
(* Configuration loading *)

\* C27: from_str accepts a parsed configuration exactly when its version is
\* "v1", its function names are distinct, every runtime is wasi-preview1 or
\* wasi-preview2, every code path is non-empty and every function has a
\* trigger; then the catalog is its functions.  Otherwise it returns an error
\* and no catalog, and a "v1" configuration with a repeated name gets the
\* error "Duplicate function name: " followed by a name that occurs twice.
C27ConfigAcceptedIffValid ==
    call.fn = "from_str" =>
        LET functions == call.config.functions
            repeated == { j \in DOMAIN functions :
                            \E i \in 1..(j - 1) : functions[i].name = functions[j].name }
            valid == /\ call.config.version = "v1"
                     /\ repeated = {}
                     /\ \A i \in DOMAIN functions :
                           /\ functions[i].runtime \in {"wasi-preview1", "wasi-preview2"}
                           /\ functions[i].code # ""
                           /\ functions[i].http \/ functions[i].nats # None
        IN  /\ call.ok <=> valid
            /\ call.ok => (catalog = functions /\ call.error = None)
            /\ ~call.ok => (catalog = <<>> /\ call.error # None)
            /\ (call.config.version = "v1" /\ repeated # {}) =>
                  \E j \in repeated :
                      call.error = Some(<<"Duplicate function name: ", functions[j].name>>)

C27Witness ==
    /\ call.fn = "from_str"
    /\ Len(call.config.functions) = 2
    /\ call.config.functions[1].name = "f"
    /\ call.config.functions[2].name = "f"
    /\ call.config.functions[2].runtime = "native"
    /\ call.error = Some(<<"Duplicate function name: ", "f">>)

---------------------------------------------------------------------------
(* Webhook adapter and envelope codec *)

\* C29 as claimed: the webhook adapter strips the prefix /events/ or /webhook/
\* from the request path, replaces every '/' of the rest with '.' and
\* prepends "com.nexus."; a path with neither prefix gives com.nexus.unknown.
C29TypeDerivedFromPath ==
    call.fn = "to_cloud_event" =>
        LET UnderPrefix(prefix) ==
                /\ Len(call.path) >= Len(prefix)
                /\ SubSeq(call.path, 1, Len(prefix)) = prefix
            Rest(prefix) == SubSeq(call.path, Len(prefix) + 1, Len(call.path))
            Dotted(s) == [i \in DOMAIN s |-> IF s[i] = "/" THEN "." ELSE s[i]]
        IN  call.event["type"] =
                ComNexus \o (IF UnderPrefix(EventsPrefix) THEN Dotted(Rest(EventsPrefix))
                             ELSE IF UnderPrefix(WebhookPrefix)
                             THEN Dotted(Rest(WebhookPrefix))
                             ELSE <<"u", "n", "k", "n", "o", "w", "n">>)

\* C30 as claimed: an envelope serialized and read back is the envelope, in
\* all its attributes, whatever its data (JSON null included) and extensions.
C30RoundTrip ==
    call.fn = "round_trip" => call.back = Some(call.event)

---------------------------------------------------------------------------
(* Status codes of the HTTP handlers *)

\* C31 as claimed: while the stream backend is not connected, webhook ingest,
\* POST /events, list, get by id, replay and execute answer with status 503.
C31NotConnectedIs503 ==
    (/\ ~connected
     /\ resp.op \in {"webhook", "events", "list", "get", "replay", "execute"}) =>
        resp.code = 503

\* C32 as claimed: get by id, replay and execute of an id that the scan
\* window does not hold each answer with status 404, and the step publishes
\* nothing, spawns no fan-out and invokes no function.
C32AbsentIdIs404 ==
    [][ \A event_id \in AskIds :
          LET got == get_event_by_id(connected, log, event_id, TRUE)
          IN  (/\ got.ok
               /\ got.value = None
               /\ \/ get_event_handler(event_id, TRUE)
                  \/ replay_handler(event_id, TRUE, TRUE)
                  \/ replay_handler(event_id, TRUE, FALSE)
                  \/ execute_handler(event_id, TRUE)) =>
                  /\ resp'.code = 404
                  /\ log' = log
                  /\ tasks' = tasks
                  /\ cache' = cache ]_vars

---------------------------------------------------------------------------
(* Identity of an envelope through the pipeline *)

\* with_extension applied to event leaves every attribute but extensions as
\* it is, sets the key and keeps the other extension keys
ExtensionOnly(event, key, value) ==
    LET extended == with_extension(event, key, value)
    IN  /\ \A attribute \in {"specversion", "event_type", "source", "id", "time",
                               "datacontenttype", "data"} :
              extended[attribute] = event[attribute]
        /\ extended.extensions[key] = value
        /\ \A k \in DOMAIN event.extensions \ {key} :
              extended.extensions[k] = event.extensions[k]

\* C34: the id and time CloudEvent::new generated are those of the envelope
\* ever after: an ingest answers with that id and stores it, with that time,
\* in its record (with_data in between changed the data only); with_extension
\* on a published envelope changes its extensions only; a task keeps its
\* envelope, and every function it invokes gets an input with the id and time
\* of the stored record of that id.
C34IdAndTimeFixedAtCreation ==
    /\ [][ (resp'.op \in {"webhook", "events"} /\ created' # created) =>
              LET id == Uuid_new_v4(Len(created))
                  now == Utc_now(acks)
                  made == created'[Len(created')].event
                  stored == log'[Len(log')].payload
              IN  /\ resp'.body.event_id = id
                  /\ made.id = id /\ made.time = now
                  /\ made.data # None /\ made.extensions = <<>>
                  /\ stored["id"] = id /\ stored["time"] = now ]_vars
    /\ [][ \A t \in DOMAIN tasks : tasks'[t].event = tasks[t].event ]_vars
    /\ [](\A n \in DOMAIN created :
            /\ ExtensionOnly(created[n].event, "traceparent", "v")
            /\ ExtensionOnly(with_extension(created[n].event, "x", "v"), "traceparent", JNull))
    /\ [](\A t \in DOMAIN tasks :
            /\ \E n \in DOMAIN created : created[n].event.id = tasks[t].event.id
            /\ \A i \in DOMAIN tasks[t].invoked :
                  LET stored == log[FirstRecord(tasks[t].event.id)].payload
                  IN  /\ tasks[t].invoked[i].input["id"] = stored["id"]
                      /\ tasks[t].invoked[i].input["time"] = stored["time"]
                      /\ stored["id"] = tasks[t].event.id)

\* C34 witness: a webhook ingest answered with the id of its record, and its
\* task has invoked two functions.
C34Witness ==
    /\ Len(created) >= 2
    /\ \E t \in DOMAIN tasks :
          /\ tasks[t].origin = "webhook"
          /\ tasks[t].event.id = created[2].event.id
          /\ Len(tasks[t].invoked) >= 2

---------------------------------------------------------------------------
(* Failure isolation in a fan-out *)

\* the function's module file is there, compiles and instantiates
Succeeds(function) ==
    /\ ReadModule(function.code) # None
    /\ Compiles(ReadModule(function.code)[1])
    /\ Instantiates(ReadModule(function.code)[1])

\* C35: execute_matching_functions attempts every function of dispatch(type)
\* in dispatch order, whichever of them fail, returns Ok, and its result
\* names exactly the functions that succeeded, in dispatch order.
C35FailureDoesNotStopFanOut ==
    call.fn = "execute_matching_functions" =>
        LET names == find_matching_functions(catalog, call.event.event_type)
            Config(name) == CHOOSE i \in DOMAIN catalog : catalog[i].name = name
            Good(name) == Succeeds(catalog[Config(name)])
        IN  /\ call.ok
            /\ call.attempted = names
            /\ [i \in DOMAIN call.results |-> call.results[i].name] = SelectSeq(names, Good)

\* C35 witness: the first of two matched functions failed to instantiate and
\* the second is in the result.
C35Witness ==
    /\ call.fn = "execute_matching_functions"
    /\ Len(call.attempted) = 2
    /\ call.attempted[1] = "fI"
    /\ Len(call.results) = 1
    /\ call.results[1].name = call.attempted[2]


\* position of the last clear_cache in the history, 0 when there is none
LastClear ==
    LET clears == { i \in DOMAIN compilations : compilations[i] = <<"clear">> }
    IN  IF clears = {} THEN 0 ELSE CHOOSE i \in clears : \A j \in clears : j <= i
\* keys whose Module::new succeeded since the last clear_cache
CompiledSinceClear ==
    { compilations[i] : i \in { j \in DOMAIN compilations :
                                  /\ j > LastClear
                                  /\ Compiles(compilations[j][2]) } }
\* the key the last call of execute or execute_func asked for
KeyOf(c) ==
    IF c.fn = "execute" THEN <<"module", c.module_bytes>>
    ELSE <<"module", c.module_bytes, c.func_name>>

\* C38: the cache holds exactly the keys whose compilation succeeded since the
\* last clear_cache.  A failed compilation leaves the cache as it was; a
\* successful one inserts the key before instantiation, so the key is cached
\* also when instantiation or the export fails; execute and execute_func of
\* the same bytes use different keys, so one does not spare the other its
\* compilation; clear_cache empties the cache and the next call compiles.
C38CacheHoldsCompiledKeys ==
    /\ [](cache = CompiledSinceClear)
    /\ [](call.fn \in {"execute", "execute_func"} =>
            /\ call.compiled /\ Compiles(call.module_bytes) => KeyOf(call) \in cache
            /\ call.compiled /\ ~Compiles(call.module_bytes)
                  => ~call.ok /\ KeyOf(call) \notin cache
            /\ ~call.compiled => KeyOf(call) \in cache)
    /\ [][ /\ ( /\ call'.fn \in {"execute", "execute_func"}
                /\ <<call, cache, compilations>>' # <<call, cache, compilations>> )
              => /\ call'.compiled = (KeyOf(call') \notin cache)
                 /\ ~Compiles(call'.module_bytes) => cache' = cache
                 /\ Compiles(call'.module_bytes) => cache' = cache \cup {KeyOf(call')}
                 /\ call.fn = "clear_cache" => call'.compiled
           /\ ( call'.fn = "execute_func" /\ cache = {<<"module", call'.module_bytes>>} )
              => call'.compiled
           /\ ( call'.fn = "clear_cache" /\ compilations' # compilations )
              => cache' = {} ]_vars

\* C38 witness: execute compiled mA, clear_cache emptied the cache, then
\* execute_func compiled mA again under the named key, instantiated it and
\* failed because the export is missing: the named key is cached.
C38Witness ==
    /\ call.fn = "execute_func" /\ call.compiled /\ call.instantiated /\ ~call.ok
    /\ Len(compilations) = 3
    /\ compilations[1] = <<"module", call.module_bytes>>
    /\ compilations[2] = <<"clear">>
    /\ compilations[3] = <<"module", call.module_bytes, call.func_name>>
    /\ cache = {compilations[3]}


---------------------------------------------------------------------------
(* POST /events *)

\* the route that created the envelope of this id
ViaOf(id) == created[CHOOSE i \in DOMAIN created : created[i].event.id = id].via
\* records of the log that hold the envelope of this id
PublishesOf(id) == Cardinality({ i \in DOMAIN log : log[i].payload["id"] = id })

\* C39: the step of POST /events that creates an envelope appends it to the
\* log and spawns no fan-out and touches no module; a fan-out task of a
\* webhook carries an envelope a webhook created, and a task that carries an
\* envelope of POST /events was spawned by a replay that republished it.  So
\* a function runs for an envelope of POST /events in a replay's task or in
\* the answer of execute, never otherwise.
C39EventsRouteOnlyPublishes ==
    /\ [](\A t \in DOMAIN tasks :
            /\ tasks[t].origin \in {"webhook", "replay"}
            /\ tasks[t].origin = "webhook" => ViaOf(tasks[t].event.id) = "webhook"
            /\ ViaOf(tasks[t].event.id) = "events"
                  => /\ tasks[t].origin = "replay"
                     /\ PublishesOf(tasks[t].event.id) >= 2)
    /\ [][ /\ ( resp'.op = "events" /\ resp' # resp ) => /\ tasks' = tasks
                                                       /\ cache' = cache
           /\ ( /\ Len(created') > Len(created)
                /\ created'[Len(created')].via = "events" )
              => /\ resp'.op = "events" /\ resp'.code = 200
                 /\ Len(log') = Len(log) + 1
                 /\ log'[Len(log')].payload["id"] = created'[Len(created')].event.id
                 /\ tasks' = tasks
                 /\ cache' = cache
           /\ ( cache' # cache \/ \E t \in DOMAIN tasks : tasks'[t].invoked # tasks[t].invoked )
              => \/ resp'.op = "execute" /\ resp' # resp /\ tasks' = tasks
                 \/ \E t \in DOMAIN tasks :
                       /\ tasks'[t] # tasks[t]
                       /\ ViaOf(tasks[t].event.id) = "events" => tasks[t].origin = "replay"
         ]_vars

\* C39 witness: an envelope of POST /events that a function matches is in the
\* log, no task ran for it until a replay republished it, and the replay's
\* task invoked the function.
C39Witness ==
    \E i \in DOMAIN created :
        /\ created[i].via = "events"
        /\ PublishesOf(created[i].event.id) = 2
        /\ Len(tasks) = 1
        /\ tasks[1].origin = "replay"
        /\ tasks[1].event.id = created[i].event.id
        /\ tasks[1].invoked # <<>>


---------------------------------------------------------------------------
(* Metrics collector under concurrent callers *)

MetricsFields == {"events_published", "events_replayed", "events_failed",
                  "functions_executed", "functions_succeeded", "functions_failed",
                  "total_execution_time_ms"}
\* what a sequence of statements adds to a field
RECURSIVE AddedTo(_, _)
AddedTo(statements, field) ==
    IF statements = <<>> THEN 0
    ELSE (IF Head(statements).field = field THEN Head(statements).by ELSE 0)
         + AddedTo(Tail(statements), field)
\* what the first n callers have added to a field so far: the statements of
\* each one that are not left to do
RECURSIVE AppliedBy(_, _)
AppliedBy(n, field) ==
    IF n = 0 THEN 0
    ELSE LET all == Statements(callers[n].op, DurationMs, callers[n].success)
         IN  AddedTo(all, field) - AddedTo(callers[n].todo, field) + AppliedBy(n - 1, field)
\* the calls of one function among the callers
CallsOf(op) == Cardinality({ t \in DOMAIN callers : callers[t].op = op })
Finished == \A t \in DOMAIN callers : callers[t].pc \in {"returned", "panicked"}

\* C36: whenever no caller is inside a write guard, functions_executed =
\* functions_succeeded + functions_failed, and every snapshot get_metrics
\* returns shows the same; a writer excludes every other holder; every
\* counter holds what the statements run so far have added to it, and once
\* all calls have returned each counter equals the number of calls that
\* targeted it (the durations for total_execution_time_ms).
C36CountersConsistent ==
    /\ rwlocks["metrics"].writer = 0 =>
          metrics.functions_executed = metrics.functions_succeeded + metrics.functions_failed
    /\ rwlocks["metrics"].writer # 0 => rwlocks["metrics"].readers = {}
    /\ \A t \in DOMAIN callers :
          /\ callers[t].pc = "locked" <=> rwlocks["metrics"].writer = t
          /\ callers[t].pc = "reading" <=> t \in rwlocks["metrics"].readers
          /\ callers[t].snapshot # None =>
                LET functions == callers[t].snapshot[1].functions
                IN  functions.executed = functions.succeeded + functions.failed
    /\ \A field \in MetricsFields : metrics[field] = AppliedBy(Len(callers), field)
    /\ Finished =>
          /\ metrics.events_published = CallsOf("increment_events_published")
          /\ metrics.events_replayed = CallsOf("increment_events_replayed")
          /\ metrics.events_failed = CallsOf("increment_events_failed")
          /\ metrics.functions_executed = CallsOf("record_function_execution")
          /\ metrics.total_execution_time_ms
                = DurationMs * CallsOf("record_function_execution")
          /\ metrics.functions_failed
                = Cardinality({ t \in DOMAIN callers : ~callers[t].success })

\* C36 witness: get_metrics asked for its guard while a
\* record_function_execution was between its statements, got it after the
\* writer left and shows one execution, a failed one; a second record was
\* applied afterwards and all calls have returned.
C36Witness ==
    /\ Len(callers) = 3 /\ Finished
    /\ callers[1].op = "record_function_execution" /\ ~callers[1].success
    /\ callers[2].op = "get_metrics"
    /\ callers[3].op = "record_function_execution" /\ callers[3].success
    /\ callers[2].snapshot # None
    /\ callers[2].snapshot[1].functions.executed = 1
    /\ callers[2].snapshot[1].functions.failed = 1
    /\ metrics.functions_executed = 2

\* C37 as claimed: whatever the counters are, get_metrics returns, the
\* difference of event_total and events_failed is not below zero and the event
\* success rate is between 0 and 100.
C37SuccessRateInRange ==
    call.fn = "get_metrics" =>
        /\ ~call.panicked
        /\ LET rate == call.value[1].events.success_rate
           IN  /\ 0 <= rate.num
               /\ rate.num <= 100 * rate.den


---------------------------------------------------------------------------
(* Locks under concurrent operations *)

\* the guards of reader/writer locks a task holds
GuardsOf(t) == { lock \in RwLocks : rwlocks[lock].writer = t \/ t \in rwlocks[lock].readers }
Unfinished == { t \in DOMAIN callers : callers[t].program # <<>> }

\* C33: while operations are unfinished some task can take a step.  The
\* holder of the module-cache mutex is on a thread, between lock() and the
\* return of get_or_compile_module, at no .await and at no other lock, and it
\* holds no other guard; a task that asks for the mutex holds no guard
\* either.  The write guard of the counters is held at no .await.  The
\* adapter lock has no writer, so a read guard is handed out at once,
\* whoever holds one already.
C33NoDeadlock ==
    /\ Unfinished # {} => ENABLED Progress
    /\ mutex # 0 =>
          /\ At(mutex, "lookup") \/ At(mutex, "compile") \/ At(mutex, "insert")
          /\ GuardsOf(mutex) = {}
    /\ \A t \in DOMAIN callers :
          /\ At(t, "lock") => GuardsOf(t) = {}
          /\ rwlocks["metrics"].writer = t => At(t, "add") \/ At(t, "drop")
          /\ ( callers[t].program # <<>> /\ Next_instr(t) = Instr("read", "nats_client") )
                => Granted(t)
          /\ Cardinality(GuardsOf(t)) <= 1
    /\ rwlocks["nats_client"].writer = 0
    /\ Cardinality(OnThread) <= Workers

\* C33 witness: two operations hold read guards of the adapter at once, both
\* suspended in their request, while a third one holds the cache mutex.
C33Witness ==
    /\ Cardinality(rwlocks["nats_client"].readers) = 2
    /\ \A t \in rwlocks["nats_client"].readers : ~callers[t].running
    /\ mutex # 0
    /\ mutex \notin rwlocks["nats_client"].readers

====
